---- MODULE Spec2Model ----
(***************************************************************************)
(* A model of the query routing and conversation orchestration layer of    *)
(* python-a2a-mcp-agents: AgentNetwork (network.py), its KeywordRouter     *)
(* (routing/keyword_router.py) and ConversationOrchestrator                *)
(* (conversation.py).                                                      *)
(*                                                                         *)
(* A Python str is a sequence of one-character strings, so concatenation,  *)
(* f-strings and substring tests are computed as the code computes them.   *)
(* Nothing in AgentNetwork, its routers or A2ANetworkClient holds a lock.   *)
(* A handler blocks in client.send_message, in the classifier call         *)
(* self.router.route(query), in the agent card requests of a router under  *)
(* construction, and in the connection tests and sends of the network      *)
(* client: an action runs a handler from one such point to the next. The   *)
(* calls that write a directory (add, remove, discover_agents) run         *)
(* statement by statement.                                                 *)
(*                                                                         *)
(* Calls in flight at one time: one add or remove, one call waiting for    *)
(* the classifier, one process_query waiting for the classifier or for a   *)
(* client, one send_message or run_workflow of the network client, one     *)
(* discover_agents, and one start_conversation for each conversation.      *)
(***************************************************************************)
EXTENDS Integers, Sequences, FiniteSets, TLC

VARIABLES
    agents,         \* AgentNetwork.agents: <<[name, endpoint], ...>> in insertion order
    clients,        \* AgentNetwork.clients: name -> endpoint of its A2AClient
    router_type,    \* AgentNetwork.router_type: "keyword" or "ai"
    OPENAI_AVAILABLE, \* config.OPENAI_AVAILABLE: the classifier library could be imported
    router,         \* AgentNetwork.router: a KeywordRouter with its keyword_mapping, or an
                    \* AIRouter with its classifier and routing_cache
    conversations,  \* ConversationOrchestrator.conversations: id -> conversation
    frames,         \* id -> the start_conversation call that created it: blocked in a send, or returned
    sent,           \* the orchestrator's client.send_message calls so far, in order, with what each returned
    last,           \* what the orchestrator, query or client call that returned last handed back,
                    \* its sends included; nothing once a query or client call made since waits
    changing,       \* the add or remove call under way, with the statement it is about to run
    routing,        \* the call waiting in self.router.route(query) of an AIRouter
    processing,     \* the process_query call waiting in client.send_message
    network_client, \* A2ANetworkClient.agents: <<[name, endpoint], ...>> in insertion order
    client_call,    \* the send_message or run_workflow call of the network client under way
    discovering     \* the discover_agents call under way: the add_agent calls it has yet to make

vars == <<agents, clients, router_type, OPENAI_AVAILABLE, router,
          conversations, frames, sent, last, changing, routing, processing,
          network_client, client_call, discovering>>

\* The state of the network client.
client_side == <<network_client, client_call, discovering>>

\* What is fixed when the process starts and the network is constructed.
setup == <<router_type, OPENAI_AVAILABLE>>

\* No add or remove call is under way.
NoChange ==
    [op |-> "none", pc |-> "done", name |-> <<>>, endpoint |-> <<>>,
     cards |-> <<>>]

\* No call is waiting for the classifier.
NoRouting ==
    [op |-> "none", query |-> <<>>, replaced |-> FALSE]

----------------------------------------------------------------------------
(* Bounds of the model *)

\* The total length of the workflows started in one run: one workflow of this
\* length, or several shorter ones side by side. A start_conversation call is
\* made with a workflow that fits in what is left of it.
MaxWorkflowSteps == 2

\* The length of a workflow handed to A2ANetworkClient.run_workflow.
MaxClientWorkflow == 2

----------------------------------------------------------------------------
(* Python values *)

\* Python's None: no str (a sequence of one-character strings) equals it.
None == <<"None">>

\* Agent names.
weather == <<"w", "e", "a", "t", "h", "e", "r">>
math == <<"m", "a", "t", "h">>
Names == {weather, math}

\* Endpoints an agent may be registered at.
Endpoint1 == <<"u", "1">>
Endpoint2 == <<"u", "2">>
Endpoints == {Endpoint1, Endpoint2}

\* Query texts handed to start_conversation and _process_next_step.
Q0 == <<"h", "i">>
Queries == {Q0}

\* Query texts handed to route_query and process_query.
QWeather ==
    <<"W", "h", "a", "t", "'", "s", " ", "t", "h", "e", " ", "w", "e", "a",
      "t", "h", "e", "r", " ", "i", "n", " ", "P", "a", "r", "i", "s", "?">>
QMath ==
    <<"W", "h", "a", "t", " ", "i", "s", " ", "5", " ", "+", " ", "3">>
QJoke ==
    <<"t", "e", "l", "l", " ", "m", "e", " ", "a", " ", "j", "o", "k", "e">>

\* A query on which weather and math keywords match equally often, and one
\* that holds more than ten keywords of the math card.
QTie ==
    <<"S", "o", "l", "v", "e", " ", "m", "a", "t", "h", " ", "w", "e", "a",
      "t", "h", "e", "r", " ", "M", "A", "P">>
QMany ==
    <<"c", "a", "l", "c", "u", "l", "a", "t", "e", " ", "a", "d", "d", " ",
      "s", "u", "b", "t", "r", "a", "c", "t", " ", "m", "u", "l", "t", "i",
      "p", "l", "y", " ", "d", "i", "v", "i", "d", "e", " ", "a", "l", "g",
      "e", "b", "r", "a", " ", "e", "q", "u", "a", "t", "i", "o", "n", " ",
      "s", "o", "l", "v", "e", " ", "e", "v", "a", "l", "u", "a", "t", "e",
      " ", "e", "x", "p", "r", "e", "s", "s", "i", "o", "n", " ", "m", "a",
      "t", "h">>

\* All query texts of the model.
QueryTexts == {Q0, QWeather, QMath, QJoke, QTie, QMany}

\* What client.send_message may do: return a message whose content has a
\* .text, return a message whose content has none (str(content) is used),
\* return nothing usable (None, or no content), or raise.
R1 == <<"o", "k">>
S1 == <<"{", "}">>
E1 == <<"d", "o", "w", "n">>
SendOutcomes ==
    {[kind |-> "text", text |-> R1],
     [kind |-> "other", text |-> S1],
     [kind |-> "none", text |-> <<>>],
     [kind |-> "raise", text |-> E1]}

\* A send_message call that has not returned yet.
Pending == [kind |-> "pending", text |-> <<>>]

\* Input texts of a further _process_next_step call.
CallTexts == {Q0, R1}

\* Sequences over S of length lo..hi.
SeqsOf(S, lo, hi) == UNION {[1..n -> S] : n \in lo..hi}

Workflows == SeqsOf(Names, 0, MaxWorkflowSteps)

\* Conversation ids: uuid4 values, all distinct; one more than can be created,
\* so that an id naming no conversation always exists.
ConvIds == 1..(MaxWorkflowSteps + 1)

----------------------------------------------------------------------------
(* AgentNetwork: the directory *)

AgentNamesAll == Names

\* The keys of AgentNetwork.agents.
AgentNames == {agents[i].name : i \in 1..Len(agents)}

\* list(self.agents.keys())
AgentKeys == [i \in 1..Len(agents) |-> agents[i].name]

\* An assignment that leaves the value of an existing key as it was.
DictSetKeep(d, name, endpoint) ==
    IF \E i \in 1..Len(d) : d[i].name = name
    THEN d
    ELSE Append(d, [name |-> name, endpoint |-> endpoint])

\* dict assignment d[name] = endpoint: an existing key keeps its place.
DictSet(d, name, endpoint) ==
    IF \E i \in 1..Len(d) : d[i].name = name
    THEN [i \in 1..Len(d) |->
            IF d[i].name = name THEN [name |-> name, endpoint |-> endpoint] ELSE d[i]]
    ELSE Append(d, [name |-> name, endpoint |-> endpoint])

\* del d[name]
DictDel(d, name) == SelectSeq(d, LAMBDA e : e.name # name)

----------------------------------------------------------------------------
(* Python str operations *)

UpperToLower ==
    [A |-> "a", B |-> "b", C |-> "c", D |-> "d", E |-> "e", F |-> "f",
     G |-> "g", H |-> "h", I |-> "i", J |-> "j", K |-> "k", L |-> "l",
     M |-> "m", N |-> "n", O |-> "o", P |-> "p", Q |-> "q", R |-> "r",
     S |-> "s", T |-> "t", U |-> "u", V |-> "v", W |-> "w", X |-> "x",
     Y |-> "y", Z |-> "z"]
\* str.lower(), on the ASCII letters
LowerChar(ch) == IF ch \in DOMAIN UpperToLower THEN UpperToLower[ch] ELSE ch
Lower(s) == [i \in 1..Len(s) |-> LowerChar(s[i])]

Whitespace == {" ", "\t", "\n"}

\* str.split(): the maximal runs of non-whitespace characters, in order.
Split(s) ==
    LET starts == {i \in 1..Len(s) :
                      /\ s[i] \notin Whitespace
                      /\ i = 1 \/ s[i - 1] \in Whitespace}
        end(i) == CHOOSE j \in i..Len(s) :
                      /\ \A k \in i..j : s[k] \notin Whitespace
                      /\ j = Len(s) \/ s[j + 1] \in Whitespace
        start(n) == CHOOSE i \in starts :
                        Cardinality({j \in starts : j <= i}) = n
    IN  [n \in 1..Cardinality(starts) |-> SubSeq(s, start(n), end(start(n)))]

\* sub in s, for two Python strs.
Contains(s, sub) ==
    \E i \in 0..(Len(s) - Len(sub)) : SubSeq(s, i + 1, i + Len(sub)) = sub

\* The elements of a list.
Range(list) == {list[i] : i \in 1..Len(list)}

\* The orders in which the elements of a set may be met.
Orders(S) ==
    {f \in [1..Cardinality(S) -> S] :
        \A i, j \in 1..Cardinality(S) : f[i] = f[j] => i = j}

----------------------------------------------------------------------------
(* The agent cards served at the endpoints *)

\* agents/mcp_weather_agent.py
WeatherCard ==
    [name |-> <<"M", "C", "P", " ", "W", "e", "a", "t", "h", "e", "r", " ", "A", "g", "e", "n", "t">>,
     description |->
        <<"P", "r", "o", "v", "i", "d", "e", "s", " ", "c", "u", "r", "r",
          "e", "n", "t", " ", "w", "e", "a", "t", "h", "e", "r", " ", "i",
          "n", "f", "o", "r", "m", "a", "t", "i", "o", "n", " ", "a", "n",
          "d", " ", "f", "o", "r", "e", "c", "a", "s", "t", "s", " ", "w",
          "i", "t", "h", " ", "e", "n", "h", "a", "n", "c", "e", "d", " ",
          "M", "C", "P", " ", "c", "a", "p", "a", "b", "i", "l", "i", "t",
          "i", "e", "s">>,
     skills |-> <<
        [name |-> <<"C", "u", "r", "r", "e", "n", "t", " ", "W", "e", "a", "t", "h", "e", "r">>,
         tags |-> <<<<"w", "e", "a", "t", "h", "e", "r">>,
                   <<"c", "u", "r", "r", "e", "n", "t">>,
                   <<"t", "e", "m", "p", "e", "r", "a", "t", "u", "r", "e">>,
                   <<"c", "o", "n", "d", "i", "t", "i", "o", "n", "s">>,
                   <<"f", "o", "r", "e", "c", "a", "s", "t">>>>],
        [name |-> <<"W", "e", "a", "t", "h", "e", "r", " ", "F", "o", "r", "e", "c", "a", "s", "t">>,
         tags |-> <<<<"w", "e", "a", "t", "h", "e", "r">>,
                   <<"f", "o", "r", "e", "c", "a", "s", "t">>,
                   <<"p", "r", "e", "d", "i", "c", "t", "i", "o", "n">>,
                   <<"u", "p", "c", "o", "m", "i", "n", "g">>,
                   <<"f", "u", "t", "u", "r", "e">>>>],
        [name |-> <<"W", "e", "a", "t", "h", "e", "r", " ", "M", "a", "p">>,
         tags |-> <<<<"w", "e", "a", "t", "h", "e", "r">>,
                   <<"m", "a", "p">>,
                   <<"v", "i", "s", "u", "a", "l", "i", "z", "a", "t", "i", "o", "n">>>>]>>]

\* agents/math_agent.py
MathCard ==
    [name |-> <<"M", "a", "t", "h", " ", "A", "g", "e", "n", "t">>,
     description |->
        <<"P", "e", "r", "f", "o", "r", "m", "s", " ", "m", "a", "t", "h",
          "e", "m", "a", "t", "i", "c", "a", "l", " ", "c", "a", "l", "c",
          "u", "l", "a", "t", "i", "o", "n", "s", " ", "a", "n", "d", " ",
          "s", "o", "l", "v", "e", "s", " ", "m", "a", "t", "h", " ", "p",
          "r", "o", "b", "l", "e", "m", "s">>,
     skills |-> <<
        [name |-> <<"B", "a", "s", "i", "c", " ", "A", "r", "i", "t", "h", "m", "e", "t", "i", "c">>,
         tags |-> <<<<"m", "a", "t", "h">>,
                   <<"a", "r", "i", "t", "h", "m", "e", "t", "i", "c">>,
                   <<"c", "a", "l", "c", "u", "l", "a", "t", "e">>,
                   <<"a", "d", "d">>,
                   <<"s", "u", "b", "t", "r", "a", "c", "t">>,
                   <<"m", "u", "l", "t", "i", "p", "l", "y">>,
                   <<"d", "i", "v", "i", "d", "e">>>>],
        [name |-> <<"A", "d", "v", "a", "n", "c", "e", "d", " ", "M", "a", "t", "h">>,
         tags |-> <<<<"m", "a", "t", "h">>,
                   <<"a", "l", "g", "e", "b", "r", "a">>,
                   <<"e", "q", "u", "a", "t", "i", "o", "n">>,
                   <<"s", "o", "l", "v", "e">>,
                   <<"e", "v", "a", "l", "u", "a", "t", "e">>,
                   <<"e", "x", "p", "r", "e", "s", "s", "i", "o", "n">>>>]>>]

\* The None that get_agent_card returns in place of a card.
NoCard == [none |-> TRUE]

\* client.get_agent_card() answered by the agent at the endpoint.
CardAt(endpoint) ==
    IF endpoint = Endpoint1 THEN WeatherCard
    ELSE IF endpoint = Endpoint2 THEN MathCard
    ELSE NoCard

\* AgentNetwork.get_agent_card(name): the card the agent's client returns
\* when the request is answered, None when the request raises or the name
\* has no client.
GetAgentCard(cl, name, answered) ==
    IF name \in DOMAIN cl
    THEN IF answered THEN CardAt(cl[name]) ELSE NoCard
    ELSE NoCard

----------------------------------------------------------------------------
(* KeywordRouter *)

stop_words ==
    {<<"a">>,
     <<"a", "n">>,
     <<"t", "h", "e">>,
     <<"a", "n", "d">>,
     <<"o", "r">>,
     <<"b", "u", "t">>,
     <<"i", "n">>,
     <<"o", "n">>,
     <<"a", "t">>,
     <<"t", "o">>,
     <<"f", "o", "r">>,
     <<"w", "i", "t", "h">>,
     <<"a", "b", "o", "u", "t">>}

\* The keywords _initialize_keyword_mappings collects for one agent.
Keywords(name, agent_card) ==
    LET desc == Lower(agent_card.description)
        desc_words == {w \in Range(Split(desc)) : w \notin stop_words /\ Len(w) > 3}
        skill_words(skill) ==
            {Lower(skill.tags[i]) : i \in 1..Len(skill.tags)}
                \cup Range(Split(Lower(skill.name)))
    IN  {Lower(name)}
            \cup Range(Split(Lower(agent_card.name)))
            \cup desc_words
            \cup UNION {skill_words(agent_card.skills[i]) :
                            i \in 1..Len(agent_card.skills)}

\* set(keywords), for each agent name and card of the model.
KeywordSets ==
    [name \in Names, agent_card \in {WeatherCard, MathCard} |->
        Keywords(name, agent_card)]

\* keyword_mapping is a dict, its keys in insertion order. The keys one agent
\* inserts come in the order of list(set(keywords)), which follows the str
\* hashes and changes from run to run: the mapping is <<group, ...>>, one
\* group for each indexed agent in the order of the directory, a group being
\* the function from the keys that agent inserted to their agent lists, with
\* no order among the keys of a group.
Keys(keyword_mapping) ==
    UNION {DOMAIN keyword_mapping[i] : i \in 1..Len(keyword_mapping)}

\* keyword_mapping[keyword]
AgentsOf(keyword_mapping, keyword) ==
    keyword_mapping[CHOOSE i \in 1..Len(keyword_mapping) :
                       keyword \in DOMAIN keyword_mapping[i]][keyword]

\* keyword_mapping[keyword].append(name) for each keyword of list(set(keywords)).
MapKeywords(keyword_mapping, keywords, name) ==
    LET appended ==
            [i \in 1..Len(keyword_mapping) |->
                [k \in DOMAIN keyword_mapping[i] |->
                    IF k \in keywords
                    THEN Append(keyword_mapping[i][k], name)
                    ELSE keyword_mapping[i][k]]]
    IN  Append(appended,
               [k \in keywords \ Keys(keyword_mapping) |-> <<name>>])

\* KeywordRouter._initialize_keyword_mappings over the directory entries
\* `items`, starting from `keyword_mapping`; cards[i] tells whether the card
\* request for the i-th entry was answered.
RECURSIVE InitializeKeywordMappings(_, _, _, _)
InitializeKeywordMappings(keyword_mapping, items, cl, cards) ==
    IF items = <<>> THEN keyword_mapping
    ELSE LET name == Head(items).name
             agent_card == GetAgentCard(cl, name, Head(cards))
         IN  IF agent_card = NoCard
             THEN InitializeKeywordMappings(keyword_mapping, Tail(items), cl,
                                            Tail(cards))
             ELSE InitializeKeywordMappings(
                      MapKeywords(keyword_mapping,
                                  KeywordSets[name, agent_card], name),
                      Tail(items), cl, Tail(cards))

\* KeywordRouter(agent_network), its card requests answered as in `cards`.
KeywordRouter(ag, cl, cards) ==
    [kind |-> "keyword",
     keyword_mapping |-> InitializeKeywordMappings(<<>>, ag, cl, cards),
     router |-> FALSE,
     agent_info |-> <<>>,
     routing_cache |-> <<>>]

----------------------------------------------------------------------------
(* AIRouter *)

\* What the constructor of the classifier may do.
Constructions == {"ok", "raise"}

\* The keys of agent_skills: the agents whose card could be fetched, in
\* the order of the directory entries `items`.
RECURSIVE AgentSkills(_, _, _)
AgentSkills(items, cl, cards) ==
    IF items = <<>> THEN <<>>
    ELSE (IF GetAgentCard(cl, Head(items).name, Head(cards)) # NoCard
          THEN <<Head(items).name>> ELSE <<>>)
         \o AgentSkills(Tail(items), cl, Tail(cards))

\* AIRouter(agent_network): `router` tells whether the classifier was
\* created, agent_info names the agents it was told about. Without the
\* library no card is requested.
AIRouter(available, ag, cl, cards, ctor) ==
    LET created == /\ available
                   /\ AgentSkills(ag, cl, cards) # <<>>
                   /\ ctor = "ok"
    IN  [kind |-> "ai",
         keyword_mapping |-> <<>>,
         router |-> created,
         agent_info |-> IF created THEN AgentSkills(ag, cl, cards) ELSE <<>>,
         routing_cache |-> <<>>]

\* AgentNetwork._initialize_router, as __init__ runs it: on the directory
\* `ag`, with the card requests of the AIRouter answered as in `cards` and
\* those of the KeywordRouter built in its place as in `fallback_cards`.
InitializeRouter(type, available, ag, cl, cards, ctor, fallback_cards) ==
    IF type = "ai"
    THEN LET ai == AIRouter(available, ag, cl, cards, ctor)
         IN  IF ~ai.router THEN KeywordRouter(ag, cl, fallback_cards) ELSE ai
    ELSE KeywordRouter(ag, cl, cards)

\* Confidence scores, in tenths: 0.0, 0.1 and 1.0.
NoConfidence == 0
LowConfidence == 1
FullConfidence == 10

\* agent_scores[agent] = agent_scores.get(agent, 0) + 1 for each agent of the
\* list; agent_scores is a dict, <<[agent, score], ...>> in insertion order.
RECURSIVE AddScores(_, _)
AddScores(agent_scores, names) ==
    IF names = <<>> THEN agent_scores
    ELSE LET agent == Head(names)
             scored ==
                 IF \E i \in 1..Len(agent_scores) : agent_scores[i].agent = agent
                 THEN [i \in 1..Len(agent_scores) |->
                         IF agent_scores[i].agent = agent
                         THEN [agent_scores[i] EXCEPT !.score = @ + 1]
                         ELSE agent_scores[i]]
                 ELSE Append(agent_scores, [agent |-> agent, score |-> 1])
         IN  AddScores(scored, Tail(names))

\* `keyword in query_lower`, for the query texts and the keywords of the
\* model: the keywords that are substrings of a lower-cased query.
KeywordsIn ==
    [query_lower \in {Lower(q) : q \in QueryTexts} |->
        {k \in UNION {KeywordSets[name, agent_card] :
                         name \in Names, agent_card \in {WeatherCard, MathCard}} :
            Contains(query_lower, k)}]

\* The scoring loop over `n` keys mapped to the agent list `names`.
RECURSIVE AddScoresTimes(_, _, _)
AddScoresTimes(agent_scores, names, n) ==
    IF n = 0 THEN agent_scores
    ELSE AddScoresTimes(AddScores(agent_scores, names), names, n - 1)

\* The scoring loop over the keys `matched` of one group, met in an order
\* that brings up their agent lists in the order `lists`. The scores do not
\* depend on the order of the keys, and the order of agent_scores depends
\* only on which agent list comes up first.
RECURSIVE ScoreGroup(_, _, _, _)
ScoreGroup(agent_scores, group, matched, lists) ==
    IF lists = <<>> THEN agent_scores
    ELSE ScoreGroup(
             AddScoresTimes(agent_scores, Head(lists),
                            Cardinality({k \in matched : group[k] = Head(lists)})),
             group, matched, Tail(lists))

\* The scoring loop of KeywordRouter.route_query: the agent_scores it may
\* end with, one for each order in which the keys of keyword_mapping may
\* come.
RECURSIVE AgentScores(_, _, _)
AgentScores(agent_scores, keyword_mapping, query_lower) ==
    IF keyword_mapping = <<>> THEN {agent_scores}
    ELSE LET group == Head(keyword_mapping)
             matched == {k \in DOMAIN group : k \in KeywordsIn[query_lower]}
         IN  UNION {AgentScores(ScoreGroup(agent_scores, group, matched, lists),
                                Tail(keyword_mapping), query_lower) :
                       lists \in Orders({group[k] : k \in matched})}

\* max(agent_scores.items(), key=lambda x: x[1]): the first item of the
\* highest score.
MaxScore(agent_scores) ==
    agent_scores[CHOOSE i \in 1..Len(agent_scores) :
                    /\ \A j \in 1..Len(agent_scores) :
                           agent_scores[j].score <= agent_scores[i].score
                    /\ \A j \in 1..(i - 1) :
                           agent_scores[j].score < agent_scores[i].score]

\* min(score / 10, 1.0), in tenths.
Confidence(score) == IF score < FullConfidence THEN score ELSE FullConfidence

KeywordRouteQueryIndexedOnly(keyword_mapping, all_agents, query) ==
    LET scores == AgentScores(<<>>, keyword_mapping, Lower(query))
        indexed == UNION {Range(AgentsOf(keyword_mapping, k)) :
                             k \in Keys(keyword_mapping)}
    IN  IF scores # {<<>>}
        THEN {[agent |-> MaxScore(agent_scores).agent,
               confidence |-> Confidence(MaxScore(agent_scores).score)] :
                 agent_scores \in scores}
        ELSE IF indexed # {}
        THEN {[agent |-> a, confidence |-> LowConfidence] : a \in indexed}
        ELSE {[agent |-> None, confidence |-> NoConfidence]}

KeywordRouteQueryAnyBest(keyword_mapping, all_agents, query) ==
    LET scores == AgentScores(<<>>, keyword_mapping, Lower(query))
    IN  IF scores # {<<>>}
        THEN UNION {{[agent |-> agent_scores[i].agent,
                      confidence |-> Confidence(MaxScore(agent_scores).score)] :
                        i \in {j \in 1..Len(agent_scores) :
                                  agent_scores[j].score
                                    = MaxScore(agent_scores).score}} :
                      agent_scores \in scores}
        ELSE IF all_agents # <<>>
        THEN {[agent |-> all_agents[i], confidence |-> LowConfidence] :
                 i \in 1..Len(all_agents)}
        ELSE {[agent |-> None, confidence |-> NoConfidence]}

KeywordRouteQueryUncapped(keyword_mapping, all_agents, query) ==
    LET scores == AgentScores(<<>>, keyword_mapping, Lower(query))
    IN  IF scores # {<<>>}
        THEN {[agent |-> MaxScore(agent_scores).agent,
               confidence |-> MaxScore(agent_scores).score] :
                 agent_scores \in scores}
        ELSE IF all_agents # <<>>
        THEN {[agent |-> all_agents[i], confidence |-> LowConfidence] :
                 i \in 1..Len(all_agents)}
        ELSE {[agent |-> None, confidence |-> NoConfidence]}

\* KeywordRouter.route_query(query): the (agent_name, confidence) pairs it may
\* return; random.choice may pick any registered agent.
KeywordRouteQuery(keyword_mapping, all_agents, query) ==
    LET scores == AgentScores(<<>>, keyword_mapping, Lower(query))
    IN  IF scores # {<<>>}
        THEN {[agent |-> MaxScore(agent_scores).agent,
               confidence |-> Confidence(MaxScore(agent_scores).score)] :
                 agent_scores \in scores}
        ELSE IF all_agents # <<>>
        THEN {[agent |-> all_agents[i], confidence |-> LowConfidence] :
                 i \in 1..Len(all_agents)}
        ELSE {[agent |-> None, confidence |-> NoConfidence]}

----------------------------------------------------------------------------
(* AIRouter.route_query *)

\* What self.router.route(query) may do: raise, or return a result whose
\* agent_name is some name or missing and whose confidence is some number,
\* within [0, 1] or not, or no number at all (null).
Classifications ==
    {[kind |-> "raise", agent_name |-> None, confidence |-> NoConfidence,
      numeric |-> TRUE]}
    \cup {[kind |-> "result", agent_name |-> a, confidence |-> c,
           numeric |-> TRUE] : a \in Names \cup {None}, c \in {9, 15}}
    \cup {[kind |-> "result", agent_name |-> a, confidence |-> NoConfidence,
           numeric |-> FALSE] : a \in Names}

\* A routing decision (agent_name, confidence); `numeric` tells whether the
\* confidence is a number.
Decision(agent_name, confidence, numeric) ==
    [agent |-> agent_name, confidence |-> confidence, numeric |-> numeric]

\* query in self.routing_cache
Cached(routing_cache, query) ==
    \E i \in 1..Len(routing_cache) : routing_cache[i].query = query

\* self.routing_cache[query]
CacheGet(routing_cache, query) ==
    routing_cache[CHOOSE i \in 1..Len(routing_cache) :
                     routing_cache[i].query = query].result

\* self.routing_cache[query] = result
CacheSet(routing_cache, query, result) ==
    IF Cached(routing_cache, query)
    THEN [i \in 1..Len(routing_cache) |->
            IF routing_cache[i].query = query
            THEN [query |-> query, result |-> result]
            ELSE routing_cache[i]]
    ELSE Append(routing_cache, [query |-> query, result |-> result])

\* A fallback that gives up: (None, 0.0) whatever the directory holds.
RandomFallbackNone(routing_cache, all_agents, query, asked) ==
    {[result |-> Decision(None, NoConfidence, TRUE),
      routing_cache |-> routing_cache,
      asked |-> asked]}

\* The random fallback of AIRouter.route_query, with no classifier (`asked`
\* is false) and in the except clause (`asked` is true): any registered
\* agent with 0.1, cached; or (None, 0.0), not cached, when no agent is
\* registered.
RandomFallback(routing_cache, all_agents, query, asked) ==
    IF all_agents # <<>>
    THEN {[result |-> Decision(all_agents[i], LowConfidence, TRUE),
           routing_cache |->
               CacheSet(routing_cache, query,
                        Decision(all_agents[i], LowConfidence, TRUE)),
           asked |-> asked] : i \in 1..Len(all_agents)}
    ELSE {[result |-> Decision(None, NoConfidence, TRUE),
           routing_cache |-> routing_cache,
           asked |-> asked]}

\* The classifier answered, and with an agent_name that is not a key of the
\* directory ("AI router suggested non-existent agent").
InvalidResult(all_agents, classified) ==
    classified.kind = "result" /\ classified.agent_name \notin Range(all_agents)

\* A route_query that treats an invalid answer like a failed call: any
\* registered agent.
AIRouteQueryMissRandom(routing_cache, all_agents, query, classified) ==
    IF classified.kind = "raise" \/ InvalidResult(all_agents, classified)
    THEN RandomFallback(routing_cache, all_agents, query, TRUE)
    ELSE {[result |-> Decision(classified.agent_name, classified.confidence,
                               classified.numeric),
           routing_cache |->
               CacheSet(routing_cache, query,
                        Decision(classified.agent_name, classified.confidence,
                                 classified.numeric)),
           asked |-> TRUE]}

\* AIRouter.route_query from the return of self.router.route(query), which
\* does `classified`, with the directory `all_agents` of that moment: the
\* classifier's answer, validated against the directory, or the random
\* fallback when the classifier raised.
AIRouteQueryMiss(routing_cache, all_agents, query, classified) ==
    IF classified.kind = "raise"
    THEN RandomFallback(routing_cache, all_agents, query, TRUE)
    ELSE IF InvalidResult(all_agents, classified)
    THEN IF all_agents # <<>>
         THEN {[result |-> Decision(all_agents[1], LowConfidence, TRUE),
                routing_cache |->
                    CacheSet(routing_cache, query,
                             Decision(all_agents[1], LowConfidence, TRUE)),
                asked |-> TRUE]}
         ELSE {[result |-> Decision(None, NoConfidence, TRUE),
                routing_cache |-> routing_cache,
                asked |-> TRUE]}
    ELSE {[result |-> Decision(classified.agent_name, classified.confidence,
                               classified.numeric),
           routing_cache |->
               CacheSet(routing_cache, query,
                        Decision(classified.agent_name, classified.confidence,
                                 classified.numeric)),
           asked |-> TRUE]}

\* A route_query that looks past its cache on every call.
AsksClassifierAlways(rt, available, query, use_cache) ==
    available /\ rt.router

\* AIRouter.route_query(query, use_cache=use_cache) goes on to call
\* self.router.route(query): no cache entry is used and a classifier is there.
AsksClassifier(rt, available, query, use_cache) ==
    /\ ~(use_cache /\ Cached(rt.routing_cache, query))
    /\ available /\ rt.router

\* AIRouter.route_query(query, use_cache=use_cache) when it does not call
\* the classifier: the decisions it may return, each with the cache it leaves.
AIRouteQuery(rt, available, all_agents, query, use_cache) ==
    IF use_cache /\ Cached(rt.routing_cache, query)
    THEN {[result |-> CacheGet(rt.routing_cache, query),
           routing_cache |-> rt.routing_cache,
           asked |-> FALSE]}
    ELSE RandomFallback(rt.routing_cache, all_agents, query, FALSE)

----------------------------------------------------------------------------
(* ConversationOrchestrator *)

user == <<"u", "s", "e", "r">>

\* f"Error in conversation with agent {current_agent}: {str(e)}"
ConversationErrorText(current_agent, e) ==
    <<"E", "r", "r", "o", "r", " ", "i", "n", " ", "c", "o", "n", "v", "e", "r",
      "s", "a", "t", "i", "o", "n", " ", "w", "i", "t", "h", " ", "a", "g", "e",
      "n", "t", " ">> \o current_agent \o <<":", " ">> \o e

\* str(KeyError(name)): the name in quotes.
KeyErrorStr(name) == <<"'">> \o name \o <<"'">>

\* "Workflow must contain at least one agent"
EmptyWorkflowText ==
    <<"W", "o", "r", "k", "f", "l", "o", "w", " ", "m", "u", "s", "t", " ", "c",
      "o", "n", "t", "a", "i", "n", " ", "a", "t", " ", "l", "e", "a", "s", "t",
      " ", "o", "n", "e", " ", "a", "g", "e", "n", "t">>

\* f"Agent '{agent_name}' not found in network"
AgentNotFoundText(agent_name) ==
    <<"A", "g", "e", "n", "t", " ", "'">> \o agent_name \o
    <<"'", " ", "n", "o", "t", " ", "f", "o", "u", "n", "d", " ", "i", "n", " ",
      "n", "e", "t", "w", "o", "r", "k">>

\* The response text the orchestrator extracts from what send_message returned.
ExtractText(response) ==
    CASE response.kind = "text" -> response.text
      [] response.kind = "other" -> response.text
      [] OTHER -> <<>>

NewConversation(workflow) ==
    [workflow |-> workflow, current_step |-> 0, messages |-> <<>>,
     complete |-> FALSE, result |-> None]

\* The input entry labelled with the agent that receives it.
InputRoleReceiver(workflow, current_step) ==
    IF current_step = 0 THEN user ELSE workflow[current_step + 1]

\* The role of a step's input entry: "user" for the first step, else the
\* previous agent of the workflow (current_step is 0-based).
InputRole(workflow, current_step) ==
    IF current_step = 0 THEN user ELSE workflow[current_step]

\* _process_next_step without the check of the complete flag.
StepSkippedUnknownOnly(convs, conversation_id) ==
    conversation_id \notin DOMAIN convs

\* The two early returns of _process_next_step: the id names no conversation,
\* or the conversation is already complete.
StepSkipped(convs, conversation_id) ==
    \/ conversation_id \notin DOMAIN convs
    \/ convs[conversation_id].complete

\* _process_next_step from its entry to the point where it returns or blocks in
\* client.send_message: the conversations afterwards, the send it makes (if
\* any) and the agent it is then waiting for (None when it returned).
ProcessNextStep(convs, cl, conversation_id, current_input) ==
    IF StepSkipped(convs, conversation_id)
    THEN [conversations |-> convs, sends |-> <<>>, awaiting |-> None]
    ELSE
    LET conversation == convs[conversation_id]
        current_step == conversation.current_step
    IN  IF current_step >= Len(conversation.workflow)
        THEN [conversations |->
                [convs EXCEPT ![conversation_id].complete = TRUE,
                              ![conversation_id].result = current_input],
              sends |-> <<>>, awaiting |-> None]
        ELSE
        LET current_agent == conversation.workflow[current_step + 1]
            entry == [role |-> InputRole(conversation.workflow, current_step),
                      content |-> current_input]
            withInput == [conversation EXCEPT !.messages = Append(@, entry)]
        IN  IF current_agent \notin DOMAIN cl
            THEN \* self.agent_network.clients[current_agent] raises KeyError
                 [conversations |->
                    [convs EXCEPT ![conversation_id] =
                        [withInput EXCEPT
                            !.complete = TRUE,
                            !.result = ConversationErrorText(current_agent,
                                            KeyErrorStr(current_agent))]],
                  sends |-> <<>>, awaiting |-> None]
            ELSE [conversations |-> [convs EXCEPT ![conversation_id] = withInput],
                  sends |-> <<[agent |-> current_agent, text |-> current_input,
                               conversation_id |-> conversation_id,
                               response |-> Pending]>>,
                  awaiting |-> current_agent]

\* AfterSend with current_step advanced for a send that raised as well.
AfterSendAdvanceOnError(convs, cl, conversation_id, current_agent, response) ==
    IF response.kind = "raise"
    THEN [conversations |->
            [convs EXCEPT ![conversation_id].complete = TRUE,
                          ![conversation_id].current_step = @ + 1,
                          ![conversation_id].result =
                              ConversationErrorText(current_agent, response.text)],
          sends |-> <<>>, awaiting |-> None]
    ELSE
    LET response_text == ExtractText(response)
        advanced == [convs EXCEPT
            ![conversation_id].messages =
                Append(@, [role |-> current_agent, content |-> response_text]),
            ![conversation_id].current_step = @ + 1]
    IN  ProcessNextStep(advanced, cl, conversation_id, response_text)

\* AfterSend with the error result left unset when the send raised.
AfterSendNoErrorResult(convs, cl, conversation_id, current_agent, response) ==
    IF response.kind = "raise"
    THEN [conversations |-> [convs EXCEPT ![conversation_id].complete = TRUE],
          sends |-> <<>>, awaiting |-> None]
    ELSE
    LET response_text == ExtractText(response)
        advanced == [convs EXCEPT
            ![conversation_id].messages =
                Append(@, [role |-> current_agent, content |-> response_text]),
            ![conversation_id].current_step = @ + 1]
    IN  ProcessNextStep(advanced, cl, conversation_id, response_text)

\* AfterSend without the recursive call: the step is recorded and the call
\* returns, leaving the next step to the caller.
AfterSendNoRecursion(convs, cl, conversation_id, current_agent, response) ==
    IF response.kind = "raise"
    THEN [conversations |->
            [convs EXCEPT ![conversation_id].complete = TRUE,
                          ![conversation_id].result =
                              ConversationErrorText(current_agent, response.text)],
          sends |-> <<>>, awaiting |-> None]
    ELSE
    LET response_text == ExtractText(response)
        advanced == [convs EXCEPT
            ![conversation_id].messages =
                Append(@, [role |-> current_agent, content |-> response_text]),
            ![conversation_id].current_step = @ + 1]
    IN  [conversations |-> advanced, sends |-> <<>>, awaiting |-> None]

\* AfterSend with a raising agent skipped: its failure is recorded in the
\* transcript and the workflow goes on to the next agent.
AfterSendSkipAndContinue(convs, cl, conversation_id, current_agent, response) ==
    LET response_text == IF response.kind = "raise"
                         THEN ConversationErrorText(current_agent, response.text)
                         ELSE ExtractText(response)
        advanced == [convs EXCEPT
            ![conversation_id].messages =
                Append(@, [role |-> current_agent, content |-> response_text]),
            ![conversation_id].current_step = @ + 1]
    IN  ProcessNextStep(advanced, cl, conversation_id, response_text)

\* AfterSend with the recursive call handed the step's own input again
\* instead of the response text.
AfterSendStaleInput(convs, cl, conversation_id, current_agent, response) ==
    IF response.kind = "raise"
    THEN [conversations |->
            [convs EXCEPT ![conversation_id].complete = TRUE,
                          ![conversation_id].result =
                              ConversationErrorText(current_agent, response.text)],
          sends |-> <<>>, awaiting |-> None]
    ELSE
    LET response_text == ExtractText(response)
        current_input == convs[conversation_id].messages[
                            Len(convs[conversation_id].messages)].content
        advanced == [convs EXCEPT
            ![conversation_id].messages =
                Append(@, [role |-> current_agent, content |-> response_text]),
            ![conversation_id].current_step = @ + 1]
    IN  ProcessNextStep(advanced, cl, conversation_id, current_input)

\* _process_next_step keeping one step counter for all conversations: a
\* returned send advances every conversation.
AfterSendSharedStep(convs, cl, conversation_id, current_agent, response) ==
    IF response.kind = "raise"
    THEN [conversations |->
            [convs EXCEPT ![conversation_id].complete = TRUE,
                          ![conversation_id].result =
                              ConversationErrorText(current_agent, response.text)],
          sends |-> <<>>, awaiting |-> None]
    ELSE
    LET response_text == ExtractText(response)
        advanced == [c \in DOMAIN convs |->
            IF c = conversation_id
            THEN [convs[c] EXCEPT
                    !.messages = Append(@, [role |-> current_agent,
                                            content |-> response_text]),
                    !.current_step = @ + 1]
            ELSE [convs[c] EXCEPT !.current_step = @ + 1]]
    IN  ProcessNextStep(advanced, cl, conversation_id, response_text)

\* The rest of _process_next_step once client.send_message has returned
\* `response` or raised: up to the next send of the recursive call.
AfterSend(convs, cl, conversation_id, current_agent, response) ==
    IF response.kind = "raise"
    THEN [conversations |->
            [convs EXCEPT ![conversation_id].complete = TRUE,
                          ![conversation_id].result =
                              ConversationErrorText(current_agent, response.text)],
          sends |-> <<>>, awaiting |-> None]
    ELSE
    LET response_text == ExtractText(response)
        advanced == [convs EXCEPT
            ![conversation_id].messages =
                Append(@, [role |-> current_agent, content |-> response_text]),
            ![conversation_id].current_step = @ + 1]
    IN  ProcessNextStep(advanced, cl, conversation_id, response_text)

\* ValidateWorkflow with only the first agent of the workflow looked up.
ValidateWorkflowFirstOnly(workflow, registered) ==
    IF workflow = <<>> THEN EmptyWorkflowText
    ELSE IF workflow[1] \notin registered THEN AgentNotFoundText(workflow[1])
    ELSE None

\* The checks start_conversation makes before it creates anything: the text
\* of the ValueError it raises, or None when the workflow is accepted.
ValidateWorkflow(workflow, registered) ==
    IF workflow = <<>> THEN EmptyWorkflowText
    ELSE IF \E i \in 1..Len(workflow) : workflow[i] \notin registered
    THEN LET i == CHOOSE i \in 1..Len(workflow) :
                     /\ workflow[i] \notin registered
                     /\ \A j \in 1..(i - 1) : workflow[j] \in registered
         IN  AgentNotFoundText(workflow[i])
    ELSE None

\* The start_conversation call of a conversation: blocked in send_message for
\* current_agent, or returned.
FrameOf(awaiting, initial_query) ==
    [pc |-> IF awaiting = None THEN "returned" ELSE "sending",
     current_agent |-> awaiting,
     initial_query |-> initial_query]

\* What a call handed back: the conversation id and the text it returned
\* (_process_next_step returns nothing), or the text of the exception it
\* raised; for a query call also the agent and confidence it settled on
\* (and whether that confidence is a number), whether it asked the router,
\* whether the router called the classifier, and the send_message calls it
\* made; for a network client call whether it returned an error message,
\* the connection tests it made, and for run_workflow the workflow and the
\* conversation it returned.
Returned(op, text, conv) ==
    [op |-> op, raised |-> FALSE, text |-> text, conv |-> conv,
     agent |-> None, confidence |-> NoConfidence, numeric |-> TRUE,
     consulted |-> FALSE, asked |-> FALSE, invalid |-> FALSE,
     sends |-> <<>>, error |-> FALSE, tests |-> <<>>, workflow |-> <<>>,
     conversation |-> <<>>]
Raised(op, text) == [Returned(op, text, 0) EXCEPT !.raised = TRUE]

\* Nothing has returned since the query or client call now waiting was made.
NoResult == Returned("none", None, 0)

RECURSIVE SumLen(_, _)
SumLen(convs, ids) ==
    IF ids = {} THEN 0
    ELSE LET c == CHOOSE c \in ids : TRUE
         IN  Len(convs[c].workflow) + SumLen(convs, ids \ {c})

\* The workflow positions of the conversations created so far.
StepsStarted == SumLen(conversations, DOMAIN conversations)

\* `log` with the pending send of the conversation answered by `response`.
Answer(log, conversation_id, response) ==
    [i \in 1..Len(log) |->
        IF log[i].conversation_id = conversation_id /\ log[i].response = Pending
        THEN [log[i] EXCEPT !.response = response]
        ELSE log[i]]

\* start_conversation(initial_query, workflow), up to its first send. The
\* first conjunct is the bound on the calls made, not code.
StartConversation(initial_query, workflow) ==
    /\ StepsStarted + Len(workflow) <= MaxWorkflowSteps
    /\ LET error == ValidateWorkflow(workflow, AgentNames)
       IN  IF error # None
           THEN /\ last' = Raised("start_conversation", error)
                /\ UNCHANGED <<setup, changing, routing, processing, client_side,
                               agents, clients, router, conversations,
                               frames, sent>>
           ELSE
           LET conversation_id == Cardinality(DOMAIN conversations) + 1
               created == [c \in DOMAIN conversations \cup {conversation_id} |->
                             IF c = conversation_id THEN NewConversation(workflow)
                             ELSE conversations[c]]
               r == ProcessNextStep(created, clients, conversation_id,
                                    initial_query)
           IN  /\ conversations' = r.conversations
               /\ sent' = sent \o r.sends
               /\ frames' = [c \in DOMAIN created |->
                               IF c = conversation_id
                               THEN FrameOf(r.awaiting, initial_query)
                               ELSE frames[c]]
               /\ last' = IF r.awaiting = None
                          THEN Returned("start_conversation", None,
                                        conversation_id)
                          ELSE last
               /\ UNCHANGED <<setup, changing, routing, processing, client_side,
                              agents, clients, router>>

\* client.send_message returns or raises in the conversation blocked on it, and
\* that conversation's start_conversation call runs on to its next send or
\* to its return.
SendReturns(conversation_id, response) ==
    /\ conversation_id \in DOMAIN frames
    /\ frames[conversation_id].pc = "sending"
    /\ LET r == AfterSend(conversations, clients, conversation_id,
                          frames[conversation_id].current_agent, response)
       IN  /\ conversations' = r.conversations
           /\ sent' = Answer(sent, conversation_id, response) \o r.sends
           /\ frames' = [frames EXCEPT ![conversation_id] =
                            FrameOf(r.awaiting, @.initial_query)]
           /\ last' = IF r.awaiting = None
                      THEN Returned("start_conversation", None, conversation_id)
                      ELSE last
    /\ UNCHANGED <<setup, changing, routing, processing, client_side, agents, clients, router>>

\* A further call of _process_next_step, on an id no start_conversation call
\* is running for.
ProcessNextStepCall(conversation_id, current_input) ==
    /\ conversation_id \in DOMAIN frames => frames[conversation_id].pc = "returned"
    /\ LET r == ProcessNextStep(conversations, clients, conversation_id, current_input)
       IN  /\ conversations' = r.conversations
           /\ sent' = sent \o r.sends
           /\ frames' = IF r.awaiting = None THEN frames
                        ELSE [frames EXCEPT ![conversation_id] =
                                FrameOf(r.awaiting, @.initial_query)]
           /\ last' = Returned("_process_next_step", None, 0)
    /\ UNCHANGED <<setup, changing, routing, processing, client_side, agents, clients, router>>

\* get_conversation_result(conversation_id)
ConversationResult(conversation_id) ==
    IF conversation_id \notin DOMAIN conversations THEN None
    ELSE IF ~conversations[conversation_id].complete THEN None
    ELSE conversations[conversation_id].result

----------------------------------------------------------------------------
(* AgentNetwork: queries *)

NoAgentsUnchecked(ag) == FALSE

\* `not self.agents`
NoAgents(ag) == ag = <<>>

FalsyAlways(x) == TRUE

\* `not x` for a str or None.
Falsy(x) == x = None \/ x = <<>>

\* AgentNetwork.route_query(query) goes on to self.router.route(query) of an
\* AIRouter, where it waits for the classifier.
RouteQueryAsks(ag, rt, available, query) ==
    /\ ~NoAgents(ag)
    /\ rt.kind = "ai"
    /\ AsksClassifier(rt, available, query, TRUE)

\* self.router.route_query(query) for either router, when it does not call
\* the classifier: the decisions it may return, each with the routing_cache
\* it leaves.
RouterRouteQuery(rt, available, all_agents, query) ==
    IF rt.kind = "ai"
    THEN AIRouteQuery(rt, available, all_agents, query, TRUE)
    ELSE {[result |-> Decision(r.agent, r.confidence, TRUE),
           routing_cache |-> rt.routing_cache,
           asked |-> FALSE] :
             r \in KeywordRouteQuery(rt.keyword_mapping, all_agents, query)}

\* AgentNetwork.route_query(query), when it does not call the classifier:
\* the decisions it may return, and whether the router was asked.
RouteQuery(ag, rt, available, query) ==
    IF NoAgents(ag)
    THEN [consulted |-> FALSE,
          results |-> {[result |-> Decision(None, NoConfidence, TRUE),
                        routing_cache |-> rt.routing_cache,
                        asked |-> FALSE]}]
    ELSE IF rt.kind = "none"
    THEN [consulted |-> FALSE,
          results |-> {[result |-> Decision(ag[1].name, LowConfidence, TRUE),
                        routing_cache |-> rt.routing_cache,
                        asked |-> FALSE]}]
    ELSE [consulted |-> TRUE,
          results |-> RouterRouteQuery(rt, available,
                                       [i \in 1..Len(ag) |-> ag[i].name],
                                       query)]

\* The call `op` is waiting in self.router.route(query).
Routing(op, query) ==
    [op |-> op, query |-> query, replaced |-> FALSE]

NoAgentsText ==
    <<"E", "r", "r", "o", "r", ":", " ", "N", "o", " ", "a", "g", "e", "n",
      "t", "s", " ", "a", "v", "a", "i", "l", "a", "b", "l", "e", " ", "i",
      "n", " ", "t", "h", "e", " ", "n", "e", "t", "w", "o", "r", "k">>

AgentNotInNetworkText(target_agent) ==
    <<"E", "r", "r", "o", "r", ":", " ", "A", "g", "e", "n", "t", " ", "'">>
        \o target_agent \o
    <<"'", " ", "n", "o", "t", " ", "f", "o", "u", "n", "d", " ", "i", "n",
      " ", "n", "e", "t", "w", "o", "r", "k">>

RoutingFailedText ==
    <<"E", "r", "r", "o", "r", ":", " ", "F", "a", "i", "l", "e", "d", " ",
      "t", "o", " ", "r", "o", "u", "t", "e", " ", "q", "u", "e", "r", "y",
      " ", "t", "o", " ", "a", "n", " ", "a", "g", "e", "n", "t">>

\* The TypeError of f"{confidence:.2f}" for a confidence that is no number.
FormatErrorText ==
    <<"u", "n", "s", "u", "p", "p", "o", "r", "t", "e", "d", " ", "f", "o",
      "r", "m", "a", "t", " ", "s", "t", "r", "i", "n", "g", " ", "p", "a",
      "s", "s", "e", "d", " ", "t", "o", " ", "N", "o", "n", "e", "T", "y",
      "p", "e", ".", "_", "_", "f", "o", "r", "m", "a", "t", "_", "_">>

InvalidResponseText(agent_name) ==
    <<"E", "r", "r", "o", "r", ":", " ", "R", "e", "c", "e", "i", "v", "e",
      "d", " ", "i", "n", "v", "a", "l", "i", "d", " ", "r", "e", "s", "p",
      "o", "n", "s", "e", " ", "f", "r", "o", "m", " ">>
        \o agent_name

ProcessingFailedText(agent_name, e) ==
    <<"E", "r", "r", "o", "r", ":", " ", "F", "a", "i", "l", "e", "d", " ",
      "t", "o", " ", "p", "r", "o", "c", "e", "s", "s", " ", "q", "u", "e",
      "r", "y", " ", "w", "i", "t", "h", " ", "a", "g", "e", "n", "t", " ">>
        \o agent_name \o <<":", " ">> \o e

\* The one send_message call of a process_query call.
QuerySend(agent_name, query, response) ==
    [agent |-> agent_name, text |-> query, conversation_id |-> 0,
     response |-> response]

\* A dispatch that sends once more when the send raised.
DispatchRetry(agent_name, query, response) ==
    IF response.kind = "raise"
    THEN [text |-> ProcessingFailedText(agent_name, response.text),
          sends |-> <<QuerySend(agent_name, query, response),
                      QuerySend(agent_name, query, response)>>]
    ELSE [text |-> IF response.kind = "none"
                   THEN InvalidResponseText(agent_name) ELSE response.text,
          sends |-> <<QuerySend(agent_name, query, response)>>]

\* The try block of process_query from the return of client.send_message
\* on: the text returned and the send_message call made, when the agent's
\* client answers with `response`.
Dispatch(agent_name, query, response) ==
    [text |-> CASE response.kind = "text" -> response.text
                [] response.kind = "other" -> response.text
                [] response.kind = "none" -> InvalidResponseText(agent_name)
                [] response.kind = "raise" ->
                       ProcessingFailedText(agent_name, response.text),
     sends |-> <<QuerySend(agent_name, query, response)>>]

\* What process_query hands back.
Reply(text, agent_name, confidence, consulted, sends) ==
    [Returned("process_query", text, 0) EXCEPT
        !.agent = agent_name,
        !.confidence = confidence,
        !.consulted = consulted,
        !.sends = sends]

\* No process_query call is waiting in client.send_message.
NoProcessing ==
    [op |-> "none", query |-> <<>>, agent |-> None,
     confidence |-> NoConfidence, consulted |-> FALSE, asked |-> FALSE]

\* process_query waits in client.send_message(message), called on the client
\* it looked up for agent_name; what it has decided is in its locals.
Processing(query, agent_name, confidence, consulted, asked) ==
    [op |-> "process_query", query |-> query, agent |-> agent_name,
     confidence |-> confidence, consulted |-> consulted, asked |-> asked]

\* How far a process_query call has come: it has returned `reply`, or it
\* waits as `waiting`.
Replied(reply) == [returns |-> TRUE, reply |-> reply, waiting |-> NoProcessing]
Waits(waiting) ==
    [returns |-> FALSE, reply |-> Returned("process_query", None, 0),
     waiting |-> waiting]

\* process_query from the choice of agent_name on, up to the wait in
\* client.send_message: the lookup self.clients[agent_name] raises KeyError
\* inside the try, or the message is sent.
Sent(cl, query, agent_name, confidence, consulted, asked) ==
    IF agent_name \notin DOMAIN cl
    THEN Replied([Reply(ProcessingFailedText(agent_name,
                                             KeyErrorStr(agent_name)),
                        agent_name, confidence, consulted, <<>>)
                    EXCEPT !.asked = asked])
    ELSE Waits(Processing(query, agent_name, confidence, consulted, asked))

\* process_query from the return of route_query, which was `d` and had or
\* had not asked the router and the classifier, up to the wait in
\* client.send_message.
Routed(cl, query, d, consulted, asked) ==
    IF Falsy(d.agent)
    THEN Replied([Reply(RoutingFailedText, d.agent, d.confidence, consulted,
                        <<>>)
                    EXCEPT !.numeric = d.numeric, !.asked = asked])
    ELSE IF ~d.numeric
    THEN Replied([Raised("process_query", FormatErrorText) EXCEPT
                     !.agent = d.agent, !.consulted = consulted,
                     !.numeric = FALSE, !.asked = asked])
    ELSE Sent(cl, query, d.agent, d.confidence, consulted, asked)

\* What route_query hands back.
RouteReply(op, d, consulted, asked) ==
    [Returned(op, None, 0) EXCEPT
        !.agent = d.agent,
        !.confidence = d.confidence,
        !.numeric = d.numeric,
        !.consulted = consulted,
        !.asked = asked]

\* AgentNetwork.route_query(query), called on the network: to its return, or
\* to the classifier call of an AIRouter.
RouteQueryCall(query) ==
    /\ IF RouteQueryAsks(agents, router, OPENAI_AVAILABLE, query)
       THEN /\ routing = NoRouting
            /\ routing' = Routing("route_query", query)
            /\ last' = NoResult
            /\ UNCHANGED router
       ELSE /\ LET routed == RouteQuery(agents, router, OPENAI_AVAILABLE, query)
               IN  \E r \in routed.results :
                     /\ last' = RouteReply("route_query", r.result,
                                           routed.consulted, r.asked)
                     /\ router' = [router EXCEPT
                                      !.routing_cache = r.routing_cache]
            /\ UNCHANGED routing
    /\ UNCHANGED <<setup, changing, processing, client_side, agents, clients,
                   conversations, frames, sent>>

\* No process_query call is waiting, for the classifier or for a client.
NoneProcessing == processing = NoProcessing /\ routing.op # "process_query"

\* AgentNetwork.process_query(query, target_agent): to its return, to the
\* classifier call of an AIRouter, or to client.send_message. A call that
\* comes to wait is made while no other process_query call waits.
ProcessQuery(query, target_agent) ==
    /\ IF NoAgents(agents)
       THEN /\ last' = Reply(NoAgentsText, None, NoConfidence, FALSE, <<>>)
            /\ UNCHANGED <<router, routing, processing>>
       ELSE IF ~Falsy(target_agent)
       THEN /\ IF target_agent \notin AgentNames
               THEN /\ last' = Reply(AgentNotInNetworkText(target_agent),
                                     None, NoConfidence, FALSE, <<>>)
                    /\ UNCHANGED processing
               ELSE LET d == Sent(clients, query, target_agent,
                                  FullConfidence, FALSE, FALSE)
                    IN  /\ d.returns \/ NoneProcessing
                        /\ processing' = IF d.returns THEN processing
                                         ELSE d.waiting
                        /\ last' = IF d.returns THEN d.reply ELSE NoResult
            /\ UNCHANGED <<router, routing>>
       ELSE IF RouteQueryAsks(agents, router, OPENAI_AVAILABLE, query)
       THEN /\ routing = NoRouting
            /\ NoneProcessing
            /\ routing' = Routing("process_query", query)
            /\ last' = NoResult
            /\ UNCHANGED <<router, processing>>
       ELSE /\ LET routed == RouteQuery(agents, router, OPENAI_AVAILABLE, query)
               IN  \E r \in routed.results :
                     LET d == Routed(clients, query, r.result,
                                     routed.consulted, r.asked)
                     IN  /\ d.returns \/ NoneProcessing
                         /\ router' = [router EXCEPT
                                          !.routing_cache = r.routing_cache]
                         /\ processing' = IF d.returns THEN processing
                                          ELSE d.waiting
                         /\ last' = IF d.returns THEN d.reply ELSE NoResult
            /\ UNCHANGED routing
    /\ UNCHANGED <<setup, changing, client_side, agents, clients,
                   conversations, frames, sent>>

\* client.send_message returns `response`, or raises, in the process_query
\* call waiting for it, which runs on to its return on its locals alone.
ProcessQueryAnswered(response) ==
    /\ processing # NoProcessing
    /\ LET d == Dispatch(processing.agent, processing.query, response)
       IN  last' = [Reply(d.text, processing.agent, processing.confidence,
                          processing.consulted, d.sends)
                      EXCEPT !.asked = processing.asked]
    /\ processing' = NoProcessing
    /\ UNCHANGED <<setup, changing, routing, client_side, agents, clients,
                   router, conversations, frames, sent>>

\* AIRouter.route_query(query, use_cache=use_cache), called on the network's
\* router: to its return, or to the classifier call.
AIRouteQueryCall(query, use_cache) ==
    /\ router.kind = "ai"
    /\ IF AsksClassifier(router, OPENAI_AVAILABLE, query, use_cache)
       THEN /\ routing = NoRouting
            /\ routing' = Routing("AIRouter.route_query", query)
            /\ last' = NoResult
            /\ UNCHANGED router
       ELSE /\ \E r \in AIRouteQuery(router, OPENAI_AVAILABLE, AgentKeys,
                                     query, use_cache) :
                  /\ last' = RouteReply("AIRouter.route_query", r.result,
                                        TRUE, r.asked)
                  /\ router' = [router EXCEPT
                                   !.routing_cache = r.routing_cache]
            /\ UNCHANGED routing
    /\ UNCHANGED <<setup, changing, processing, client_side, agents, clients,
                   conversations, frames, sent>>

\* self.router.route(query) does `classified` in the call waiting for it,
\* which runs on to its return, or for process_query to the wait in
\* client.send_message: it reads the directory as it is by now and writes
\* the cache of the AIRouter it was called on, which is no longer the
\* network's router when an add or remove has assigned a new one since.
ClassifierReturns(classified) ==
    /\ routing # NoRouting
    /\ \E r \in AIRouteQueryMiss(router.routing_cache, AgentKeys,
                                 routing.query, classified) :
           /\ router' = IF routing.replaced THEN router
                        ELSE [router EXCEPT !.routing_cache = r.routing_cache]
           /\ IF routing.op = "process_query"
              THEN LET d == Routed(clients, routing.query, r.result, TRUE,
                                   TRUE)
                   IN  /\ processing' = d.waiting
                       /\ last' = IF d.returns THEN d.reply ELSE NoResult
              ELSE /\ last' = [RouteReply(routing.op, r.result, TRUE, TRUE)
                                 EXCEPT !.invalid =
                                     InvalidResult(AgentKeys, classified)]
                   /\ UNCHANGED processing
    /\ routing' = NoRouting
    /\ UNCHANGED <<setup, changing, client_side, agents, clients,
                   conversations, frames, sent>>

\* KeywordRouter.route_query(query), called on the network's router.
KeywordRouteQueryCall(query) ==
    /\ router.kind = "keyword"
    /\ \E r \in KeywordRouteQuery(router.keyword_mapping, AgentKeys, query) :
           last' = [Returned("KeywordRouter.route_query", None, 0) EXCEPT
                       !.agent = r.agent,
                       !.confidence = r.confidence,
                       !.consulted = TRUE]
    /\ UNCHANGED <<setup, changing, routing, processing, client_side, agents,
                   clients, router, conversations, frames, sent>>

----------------------------------------------------------------------------
(* A2ANetworkClient *)

knowledge == <<"k", "n", "o", "w", "l", "e", "d", "g", "e">>

\* Names a caller may pass to the network client.
ClientNames == Names \cup {knowledge}

\* str(port), for a port number.
RECURSIVE Str(_)
Str(n) ==
    LET digits == <<"0", "1", "2", "3", "4", "5", "6", "7", "8", "9">>
    IN  IF n < 10 THEN <<digits[n + 1]>>
        ELSE Str(n \div 10) \o <<digits[(n % 10) + 1]>>

\* f"http://localhost:{port}/a2a"
PortEndpoint(port) ==
    <<"h", "t", "t", "p", ":", "/", "/", "l", "o", "c", "a", "l", "h", "o",
      "s", "t", ":">> \o Str(port) \o <<"/", "a", "2", "a">>

\* The ports discover_agents falls back on: {"weather": 59983, "knowledge":
\* 59984}.
WeatherPort == 59983
KnowledgePort == 59984
DefaultPorts ==
    <<[name |-> weather, port |-> WeatherPort],
      [name |-> knowledge, port |-> KnowledgePort]>>

\* known_ports arguments of discover_agents, as <<[name, port], ...>>: None
\* or an empty dict (both <<>>), and {"math": 1234}.
KnownPorts == {<<>>, <<[name |-> math, port |-> 1234]>>}

\* What AgentServer knows to be running in this process when discover_agents
\* asks: nothing, or the math agent.
RunningAgents == {<<>>, <<[name |-> math, endpoint |-> Endpoint2]>>}

\* What send_conversation may do at a workflow position: return the
\* conversation with the agent's reply added, or raise.
ConversationOutcomes == {"ok", "raise"}

\* Workflows handed to run_workflow.
ClientWorkflows == SeqsOf({weather, knowledge}, 0, MaxClientWorkflow)

\* name in self.agents
Known(na, name) == \E i \in 1..Len(na) : na[i].name = name

\* self.agents[name].endpoint_url
EndpointOf(na, name) ==
    na[CHOOSE i \in 1..Len(na) : na[i].name = name].endpoint

\* The add_agent calls discover_agents(known_ports) makes, in order: one for
\* each agent running in this process, then one for each known port, the
\* default ports when none are given.
DiscoverAgents(running, known_ports) ==
    LET ports == IF known_ports = <<>> THEN DefaultPorts ELSE known_ports
    IN  running \o [i \in 1..Len(ports) |->
                      [name |-> ports[i].name,
                       endpoint |-> PortEndpoint(ports[i].port)]]

\* "No agents available. Please start agent servers first or provide agent
\* endpoints."
NoClientAgentsText ==
    <<"N", "o", " ", "a", "g", "e", "n", "t", "s", " ", "a", "v", "a", "i",
      "l", "a", "b", "l", "e", ".", " ", "P", "l", "e", "a", "s", "e", " ",
      "s", "t", "a", "r", "t", " ", "a", "g", "e", "n", "t", " ", "s", "e",
      "r", "v", "e", "r", "s", " ", "f", "i", "r", "s", "t", " ", "o", "r",
      " ", "p", "r", "o", "v", "i", "d", "e", " ", "a", "g", "e", "n", "t",
      " ", "e", "n", "d", "p", "o", "i", "n", "t", "s", ".">>

\* f"Agent '{agent_name}' not found"
ClientAgentNotFoundText(agent_name) ==
    <<"A", "g", "e", "n", "t", " ", "'">> \o agent_name \o
    <<"'", " ", "n", "o", "t", " ", "f", "o", "u", "n", "d">>

\* f"Cannot connect to agent '{agent_name}'. Please ensure the agent server
\* is running."
CannotConnectText(agent_name) ==
    <<"C", "a", "n", "n", "o", "t", " ", "c", "o", "n", "n", "e", "c", "t",
      " ", "t", "o", " ", "a", "g", "e", "n", "t", " ", "'">> \o agent_name \o
    <<"'", ".", " ", "P", "l", "e", "a", "s", "e", " ", "e", "n", "s", "u",
      "r", "e", " ", "t", "h", "e", " ", "a", "g", "e", "n", "t", " ", "s",
      "e", "r", "v", "e", "r", " ", "i", "s", " ", "r", "u", "n", "n", "i",
      "n", "g", ".">>

\* "No available agents could be reached. Please ensure agent servers are
\* running."
NoneReachableText ==
    <<"N", "o", " ", "a", "v", "a", "i", "l", "a", "b", "l", "e", " ", "a",
      "g", "e", "n", "t", "s", " ", "c", "o", "u", "l", "d", " ", "b", "e",
      " ", "r", "e", "a", "c", "h", "e", "d", ".", " ", "P", "l", "e", "a",
      "s", "e", " ", "e", "n", "s", "u", "r", "e", " ", "a", "g", "e", "n",
      "t", " ", "s", "e", "r", "v", "e", "r", "s", " ", "a", "r", "e", " ",
      "r", "u", "n", "n", "i", "n", "g", ".">>

\* f"Agent '{agent_name}' not found in the network"
NotInNetworkText(agent_name) ==
    <<"A", "g", "e", "n", "t", " ", "'">> \o agent_name \o
    <<"'", " ", "n", "o", "t", " ", "f", "o", "u", "n", "d", " ", "i", "n",
      " ", "t", "h", "e", " ", "n", "e", "t", "w", "o", "r", "k">>

\* ', '.join(names)
RECURSIVE Join(_)
Join(names) ==
    IF names = <<>> THEN <<>>
    ELSE IF Len(names) = 1 THEN names[1]
    ELSE names[1] \o <<",", " ">> \o Join(Tail(names))

\* f"Cannot connect to the following agents: {', '.join(unavailable_agents)}.
\* Please ensure all agent servers are running."
UnavailableText(unavailable_agents) ==
    <<"C", "a", "n", "n", "o", "t", " ", "c", "o", "n", "n", "e", "c", "t",
      " ", "t", "o", " ", "t", "h", "e", " ", "f", "o", "l", "l", "o", "w",
      "i", "n", "g", " ", "a", "g", "e", "n", "t", "s", ":", " ">> \o Join(unavailable_agents) \o
    <<".", " ", "P", "l", "e", "a", "s", "e", " ", "e", "n", "s", "u", "r",
      "e", " ", "a", "l", "l", " ", "a", "g", "e", "n", "t", " ", "s", "e",
      "r", "v", "e", "r", "s", " ", "a", "r", "e", " ", "r", "u", "n", "n",
      "i", "n", "g", ".">>

\* f"Error communicating with {agent_name} agent: {str(e)}"
CommunicationErrorText(agent_name, e) ==
    <<"E", "r", "r", "o", "r", " ", "c", "o", "m", "m", "u", "n", "i", "c",
      "a", "t", "i", "n", "g", " ", "w", "i", "t", "h", " ">> \o agent_name \o
    <<" ", "a", "g", "e", "n", "t", ":", " ">> \o e

\* RuntimeError("dictionary changed size during iteration"), raised by the
\* next step of a loop over self.agents.items() after a key was added.
DictChangedText ==
    <<"d", "i", "c", "t", "i", "o", "n", "a", "r", "y", " ", "c", "h", "a",
      "n", "g", "e", "d", " ", "s", "i", "z", "e", " ", "d", "u", "r", "i",
      "n", "g", " ", "i", "t", "e", "r", "a", "t", "i", "o", "n">>

\* One test_connection call: the agent and what it returned.
Test(name, ok) == [agent |-> name, ok |-> ok]

\* An entry of a Conversation: who wrote it and what.
Entry(role, content) == [role |-> role, content |-> content]

\* conversation.create_error_message(text)
WithError(conversation, text) ==
    Append(conversation, Entry("system", text))

\* No send_message or run_workflow call is under way.
NoCall ==
    [op |-> "none", pc |-> "done", message |-> <<>>, agent_name |-> None,
     todo |-> <<>>, at |-> 0, size |-> 0, name |-> None, endpoint |-> <<>>,
     tests |-> <<>>, workflow |-> <<>>, unavailable |-> <<>>,
     conversation |-> <<>>, sends |-> <<>>]

\* No discover_agents call is under way.
NoDiscovery == [op |-> "none", todo |-> <<>>]

\* How far a network client call has come: it has returned (or raised) as
\* `result`, or it waits as `call`.
ClientReturns(result) ==
    [returns |-> TRUE, result |-> result, call |-> NoCall]
ClientWaits(call) ==
    [returns |-> FALSE, result |-> NoResult, call |-> call]

\* What send_message hands back: an error message (error TRUE), what the
\* agent's client returned, or an exception.
MessageResult(call, error, raised, text) ==
    [Returned("send_message", text, 0) EXCEPT
        !.raised = raised,
        !.agent = call.agent_name,
        !.error = error,
        !.tests = call.tests,
        !.sends = call.sends]

\* send_message waits in test_connection of the client of `name`, the entry
\* `at` of the loop over self.agents.items() when no agent_name was given.
Testing(call, na, name, at) ==
    ClientWaits([call EXCEPT !.pc = "test", !.name = name,
                             !.endpoint = EndpointOf(na, name), !.at = at])

\* send_message from its check of self.agents (after discovery, if any) to
\* its first connection test: for a given agent_name the test of that agent,
\* else the test of the first entry of self.agents.items(), whose size the
\* loop remembers.
SendMessageBegin(na, call) ==
    IF na = <<>>
    THEN ClientReturns(MessageResult(call, TRUE, FALSE, NoClientAgentsText))
    ELSE IF ~Falsy(call.agent_name)
    THEN IF ~Known(na, call.agent_name)
         THEN ClientReturns(MessageResult(call, TRUE, FALSE,
                                ClientAgentNotFoundText(call.agent_name)))
         ELSE Testing(call, na, call.agent_name, 0)
    ELSE Testing([call EXCEPT !.size = Len(na)], na, na[1].name, 1)

\* send_message from the return of a connection test, which was `ok`, on the
\* directory as it is by then. For a given agent_name the message goes to
\* self.agents[agent_name], read again; in the loop it goes to the client
\* that was tested, and after a failed test the loop steps on: it raises if
\* self.agents has grown since the loop began, ends after the last entry,
\* and else tests the next entry.
SendMessageTested(na, call, ok) ==
    LET tested == [call EXCEPT
                      !.tests = Append(@, Test(call.name, ok))]
    IN  IF ~Falsy(call.agent_name)
        THEN IF ~ok
             THEN ClientReturns(MessageResult(tested, TRUE, FALSE,
                                    CannotConnectText(call.agent_name)))
             ELSE ClientWaits([tested EXCEPT
                                  !.pc = "send",
                                  !.endpoint = EndpointOf(na, call.agent_name)])
        ELSE IF ok
        THEN ClientWaits([tested EXCEPT !.pc = "send"])
        ELSE IF Len(na) # call.size
        THEN ClientReturns(MessageResult(tested, FALSE, TRUE, DictChangedText))
        ELSE IF call.at = call.size
        THEN ClientReturns(MessageResult(tested, TRUE, FALSE,
                                         NoneReachableText))
        ELSE Testing(tested, na, na[call.at + 1].name, call.at + 1)

\* send_message from the return of the client's send_message, which returned
\* `response` or raised: the call hands that on.
SendMessageSent(call, response) ==
    LET sent_to == [call EXCEPT
                       !.sends = <<[agent |-> call.name,
                                    text |-> call.message,
                                    response |-> response]>>]
    IN  ClientReturns(MessageResult(sent_to, FALSE, response.kind = "raise",
                                    response.text))

\* What run_workflow hands back.
WorkflowResult(call) ==
    [Returned("run_workflow", None, 0) EXCEPT
        !.workflow = call.workflow,
        !.conversation = call.conversation,
        !.tests = call.tests,
        !.sends = call.sends]

\* The second loop of run_workflow from position i on, up to the wait in
\* send_conversation on self.agents[agent_name].
RunWorkflowSends(na, call, i) ==
    IF i > Len(call.workflow)
    THEN ClientReturns(WorkflowResult(call))
    ELSE ClientWaits([call EXCEPT
                         !.pc = "send", !.at = i, !.name = call.workflow[i],
                         !.endpoint = EndpointOf(na, call.workflow[i])])

\* The first loop of run_workflow from position i on, up to the wait in the
\* next connection test; after the last position the error for the agents
\* whose test failed, or the second loop.
RunWorkflowTests(na, call, i) ==
    IF i > Len(call.workflow)
    THEN IF call.unavailable # <<>>
         THEN ClientReturns(WorkflowResult(
                  [call EXCEPT !.conversation =
                      WithError(@, UnavailableText(call.unavailable))]))
         ELSE RunWorkflowSends(na, call, 1)
    ELSE IF ~Known(na, call.workflow[i])
    THEN ClientReturns(WorkflowResult(
             [call EXCEPT !.conversation =
                 WithError(@, NotInNetworkText(call.workflow[i]))]))
    ELSE ClientWaits([call EXCEPT
                         !.pc = "test", !.at = i, !.name = call.workflow[i],
                         !.endpoint = EndpointOf(na, call.workflow[i])])

\* run_workflow from the return of a connection test, which was `ok`.
RunWorkflowTested(na, call, ok) ==
    RunWorkflowTests(
        na,
        [call EXCEPT
            !.tests = Append(@, Test(call.name, ok)),
            !.unavailable = IF ok THEN @ ELSE Append(@, call.name)],
        call.at + 1)

\* The send_conversation call run_workflow has just made.
ConversationSend(call, outcome) ==
    [agent |-> call.name, conversation |-> call.conversation,
     raised |-> outcome = "raise"]

\* A loop that goes on to the next agent after a send has raised.
RunWorkflowSentCarryOn(na, call, outcome) ==
    RunWorkflowSends(
        na,
        [call EXCEPT
            !.sends = Append(@, ConversationSend(call, outcome)),
            !.conversation =
                IF outcome = "raise"
                THEN WithError(@, CommunicationErrorText(call.name, E1))
                ELSE Append(@, Entry(call.name, R1))],
        call.at + 1)

\* run_workflow from the return of send_conversation: the conversation the
\* agent returned replaces the one sent and the loop goes on, or, when the
\* send raised, the error is added and the loop ends.
RunWorkflowSent(na, call, outcome) ==
    LET made == [call EXCEPT
                    !.sends = Append(@, ConversationSend(call, outcome))]
    IN  IF outcome = "raise"
        THEN ClientReturns(WorkflowResult(
                 [made EXCEPT !.conversation =
                     WithError(@, CommunicationErrorText(call.name, E1))]))
        ELSE RunWorkflowSends(
                 na,
                 [made EXCEPT !.conversation =
                     Append(@, Entry(call.name, R1))],
                 call.at + 1)

\* The call under way goes on as `progress`: it waits again, or it returns.
Proceeds(progress) ==
    /\ client_call' = progress.call
    /\ last' = IF progress.returns THEN progress.result ELSE NoResult

\* add_agent(name, endpoint_url)
AddAgent(name, endpoint_url) ==
    /\ network_client' = DictSet(network_client, name, endpoint_url)
    /\ UNCHANGED <<setup, changing, routing, processing, agents, clients,
                   router, conversations, frames, sent, last, client_call,
                   discovering>>

\* discover_agents(known_ports) is called and reads what is running.
DiscoverAgentsCall(known_ports) ==
    /\ discovering = NoDiscovery
    /\ \E running \in RunningAgents :
           discovering' = [op |-> "discover_agents",
                           todo |-> DiscoverAgents(running, known_ports)]
    /\ UNCHANGED <<setup, changing, routing, processing, agents, clients,
                   router, conversations, frames, sent, last, network_client,
                   client_call>>

\* discover_agents: its next self.add_agent(name, endpoint); after the last
\* one it returns.
DiscoverAddAgent ==
    /\ discovering # NoDiscovery
    /\ network_client' = DictSet(network_client, Head(discovering.todo).name,
                                 Head(discovering.todo).endpoint)
    /\ discovering' = IF Tail(discovering.todo) = <<>> THEN NoDiscovery
                      ELSE [discovering EXCEPT !.todo = Tail(@)]
    /\ UNCHANGED <<setup, changing, routing, processing, agents, clients,
                   router, conversations, frames, sent, last, client_call>>

\* send_message(message, agent_name) is called: on an empty self.agents it
\* starts discover_agents(), else it runs on to its first connection test.
SendMessageCall(message, agent_name) ==
    /\ client_call = NoCall
    /\ LET call == [NoCall EXCEPT !.op = "send_message",
                                  !.message = message,
                                  !.agent_name = agent_name]
       IN  IF network_client = <<>>
           THEN /\ \E running \in RunningAgents :
                       client_call' =
                           [call EXCEPT !.pc = "discover",
                                        !.todo = DiscoverAgents(running, <<>>)]
                /\ last' = NoResult
           ELSE Proceeds(SendMessageBegin(network_client, call))
    /\ UNCHANGED <<setup, changing, routing, processing, agents, clients,
                   router, conversations, frames, sent, network_client,
                   discovering>>

\* send_message: the next self.add_agent(name, endpoint) of its
\* discover_agents() call.
SendMessageDiscovers ==
    /\ client_call.pc = "discover"
    /\ client_call.todo # <<>>
    /\ network_client' = DictSet(network_client, Head(client_call.todo).name,
                                 Head(client_call.todo).endpoint)
    /\ client_call' = [client_call EXCEPT !.todo = Tail(@)]
    /\ UNCHANGED <<setup, changing, routing, processing, agents, clients,
                   router, conversations, frames, sent, last, discovering>>

\* send_message: discover_agents() has returned, and the call runs on to its
\* first connection test.
SendMessageDiscovered ==
    /\ client_call.pc = "discover"
    /\ client_call.todo = <<>>
    /\ Proceeds(SendMessageBegin(network_client, client_call))
    /\ UNCHANGED <<setup, changing, routing, processing, agents, clients,
                   router, conversations, frames, sent, network_client,
                   discovering>>

\* test_connection returns `ok` in the call waiting for it.
TestConnectionReturns(ok) ==
    /\ client_call.pc = "test"
    /\ IF client_call.op = "send_message"
       THEN Proceeds(SendMessageTested(network_client, client_call, ok))
       ELSE Proceeds(RunWorkflowTested(network_client, client_call, ok))
    /\ UNCHANGED <<setup, changing, routing, processing, agents, clients,
                   router, conversations, frames, sent, network_client,
                   discovering>>

\* The client's send_message returns `response`, or raises, in the
\* send_message call waiting for it.
ClientSendReturns(response) ==
    /\ client_call.op = "send_message"
    /\ client_call.pc = "send"
    /\ Proceeds(SendMessageSent(client_call, response))
    /\ UNCHANGED <<setup, changing, routing, processing, agents, clients,
                   router, conversations, frames, sent, network_client,
                   discovering>>

\* run_workflow(initial_message, workflow) is called and runs on to its
\* first connection test.
RunWorkflowCall(initial_message, workflow) ==
    /\ client_call = NoCall
    /\ Proceeds(RunWorkflowTests(
           network_client,
           [NoCall EXCEPT !.op = "run_workflow",
                          !.message = initial_message,
                          !.workflow = workflow,
                          !.conversation = <<Entry(user, initial_message)>>],
           1))
    /\ UNCHANGED <<setup, changing, routing, processing, agents, clients,
                   router, conversations, frames, sent, network_client,
                   discovering>>

\* send_conversation returns, or raises, in the run_workflow call waiting
\* for it.
SendConversationReturns(outcome) ==
    /\ client_call.op = "run_workflow"
    /\ client_call.pc = "send"
    /\ Proceeds(RunWorkflowSent(network_client, client_call, outcome))
    /\ UNCHANGED <<setup, changing, routing, processing, agents, clients,
                   router, conversations, frames, sent, network_client,
                   discovering>>

----------------------------------------------------------------------------
(* AgentNetwork.add / remove, statement by statement *)

\* What the classifier's constructor may do in a rebuild of the router; it is
\* called only for an AI router with the library imported.
Rebuilds ==
    IF router_type = "ai" /\ OPENAI_AVAILABLE THEN Constructions ELSE {"ok"}

\* The call under way, about to run the statement `pc`; `cards` tells, for
\* the router it is building, which of the card requests made so far were
\* answered.
Change(op, pc, name, endpoint) ==
    [op |-> op, pc |-> pc, name |-> name, endpoint |-> endpoint,
     cards |-> <<>>]

\* self.router is assigned while a call waits in the router it had.
Replaced == IF routing = NoRouting THEN routing
            ELSE [routing EXCEPT !.replaced = TRUE]

\* add: self.agents[name] = endpoint
AddAgents(name, endpoint) ==
    /\ changing = NoChange
    /\ agents' = DictSet(agents, name, endpoint)
    /\ changing' = Change("add", "clients", name, endpoint)
    /\ UNCHANGED <<setup, routing, processing, client_side, clients, router,
                   conversations, frames, sent, last>>

\* add: self.clients[name] = A2AClient(endpoint)
AddClients ==
    /\ changing.op = "add" /\ changing.pc = "clients"
    /\ clients' = [n \in DOMAIN clients \cup {changing.name} |->
                     IF n = changing.name THEN changing.endpoint
                     ELSE clients[n]]
    /\ changing' = [changing EXCEPT !.pc = "router"]
    /\ UNCHANGED <<setup, routing, processing, client_side, agents, router,
                   conversations, frames, sent, last>>

\* remove: if name in self.agents: del self.agents[name]
RemoveAgents(name) ==
    /\ changing = NoChange
    /\ IF name \in AgentNames
       THEN /\ agents' = DictDel(agents, name)
            /\ changing' = Change("remove", "clients", name, <<>>)
       ELSE UNCHANGED <<agents, changing>>
    /\ UNCHANGED <<setup, routing, processing, client_side, clients, router,
                   conversations, frames, sent, last>>

\* remove: del self.clients[name]
RemoveClients ==
    /\ changing.op = "remove" /\ changing.pc = "clients"
    /\ clients' = [n \in DOMAIN clients \ {changing.name} |-> clients[n]]
    /\ changing' = [changing EXCEPT !.pc = "router"]
    /\ UNCHANGED <<setup, routing, processing, client_side, agents, router,
                   conversations, frames, sent, last>>

\* The router under construction asks each agent of the directory for its
\* card: a KeywordRouter does, an AIRouter does when the library is imported.
RequestsCards ==
    \/ changing.pc = "fallback"
    \/ changing.pc = "router" /\ (router_type # "ai" \/ OPENAI_AVAILABLE)

\* The card requests the router under construction makes.
CardRequests == IF RequestsCards THEN Len(agents) ELSE 0

\* get_agent_card(name) returns in the router under construction, for an
\* agent of the directory that is not the last: the card (`answered`), or
\* None. The construction goes on to the request for the next agent.
GetAgentCardReturns(answered) ==
    /\ Len(changing.cards) + 1 < CardRequests
    /\ changing' = [changing EXCEPT !.cards = Append(@, answered)]
    /\ UNCHANGED <<setup, routing, processing, client_side, agents, clients,
                   router, conversations, frames, sent, last>>

\* The router under construction waits for no card but the last, if for any.
LastRequest == Len(changing.cards) + 1 >= CardRequests

\* What the card requests of the router under construction were answered,
\* the last of them `answered`.
Cards(answered) ==
    IF CardRequests = 0 THEN <<>> ELSE Append(changing.cards, answered)

\* An _initialize_router that, called by remove, leaves the router as it is.
AssignRouterAddOnly(answered) ==
    /\ changing.pc = "router"
    /\ LastRequest
    /\ IF changing.op = "remove"
       THEN UNCHANGED <<router, routing>>
       ELSE /\ router' = KeywordRouter(agents, clients, Cards(answered))
            /\ routing' = Replaced
    /\ changing' = NoChange
    /\ UNCHANGED <<setup, processing, client_side, agents, clients,
                   conversations, frames, sent, last>>

\* _initialize_router: self.router = AIRouter(self), or, for the keyword
\* type, self.router = KeywordRouter(self). The last card request of the
\* construction, if it makes any, returns the card (`answered`) or None, and
\* the router built is assigned.
AssignRouter(answered) ==
    /\ changing.pc = "router"
    /\ LastRequest
    /\ IF router_type = "ai"
       THEN /\ \E ctor \in Rebuilds :
                   router' = AIRouter(OPENAI_AVAILABLE, agents, clients,
                                      Cards(answered), ctor)
            /\ changing' = IF router'.router THEN NoChange
                           ELSE [changing EXCEPT !.pc = "fallback",
                                                 !.cards = <<>>]
       ELSE /\ router' = KeywordRouter(agents, clients, Cards(answered))
            /\ changing' = NoChange
    /\ routing' = Replaced
    /\ UNCHANGED <<setup, processing, client_side, agents, clients,
                   conversations, frames, sent, last>>

\* _initialize_router: if not self.router.router:
\*     self.router = KeywordRouter(self)
\* with the last card request of the KeywordRouter, if it makes any.
AssignFallback(answered) ==
    /\ changing.pc = "fallback"
    /\ LastRequest
    /\ router' = KeywordRouter(agents, clients, Cards(answered))
    /\ changing' = NoChange
    /\ routing' = Replaced
    /\ UNCHANGED <<setup, processing, client_side, agents, clients,
                   conversations, frames, sent, last>>

----------------------------------------------------------------------------
(* The orchestrator on a changing directory *)

\* add(name, endpoint) is called for an agent that is not registered: the
\* calls the orchestrator can tell apart. Calls for a registered name are
\* made in NetSpec and RouterSpec.
Register(name) ==
    /\ name \notin AgentNames
    /\ AddAgents(name, Endpoint1)

Init ==
    /\ agents = <<>>
    /\ clients = <<>>
    /\ router_type = "keyword"
    /\ OPENAI_AVAILABLE = FALSE
    /\ router = InitializeRouter("keyword", FALSE, <<>>, <<>>, <<>>, "ok", <<>>)
    /\ conversations = <<>>
    /\ frames = <<>>
    /\ sent = <<>>
    /\ last = Returned("__init__", None, 0)
    /\ changing = NoChange
    /\ routing = NoRouting
    /\ processing = NoProcessing
    /\ network_client = <<>>
    /\ client_call = NoCall
    /\ discovering = NoDiscovery

Next ==
    \/ \E n \in Names : Register(n)
    \/ AddClients
    \/ \E n \in Names : RemoveAgents(n)
    \/ RemoveClients
    \/ GetAgentCardReturns(TRUE)
    \/ AssignRouter(TRUE)
    \/ \E q \in Queries, w \in Workflows : StartConversation(q, w)
    \/ \E c \in ConvIds, o \in SendOutcomes : SendReturns(c, o)
    \/ \E c \in ConvIds, t \in CallTexts : ProcessNextStepCall(c, t)

Spec == Init /\ [][Next]_vars

\* Conversations run on a changing directory, and every send_message call
\* eventually returns or raises.
RunNext ==
    \/ \E n \in Names : Register(n)
    \/ AddClients
    \/ \E n \in Names : RemoveAgents(n)
    \/ RemoveClients
    \/ GetAgentCardReturns(TRUE)
    \/ AssignRouter(TRUE)
    \/ \E q \in Queries, w \in Workflows : StartConversation(q, w)
    \/ \E c \in ConvIds, o \in SendOutcomes : SendReturns(c, o)

FairSpec ==
    /\ Init /\ [][RunNext]_vars
    /\ \A c \in ConvIds : WF_vars(\E o \in SendOutcomes : SendReturns(c, o))

----------------------------------------------------------------------------
(* Queries on a changing directory *)

\* The query texts of route_query and process_query calls on the network.
NetQueries == {QWeather, QMath, QJoke}

\* target_agent values: absent, empty, and names that may or may not be
\* registered at the time of the call.
Targets == {None, <<>>} \cup Names

\* The add calls made on the network: each agent at the endpoint that
\* serves its card.
NetAgents ==
    {[name |-> weather, endpoint |-> Endpoint1],
     [name |-> math, endpoint |-> Endpoint2]}

NetNext ==
    \/ \E a \in NetAgents : AddAgents(a.name, a.endpoint)
    \/ AddClients
    \/ \E n \in Names : RemoveAgents(n)
    \/ RemoveClients
    \/ \E answered \in BOOLEAN : GetAgentCardReturns(answered)
    \/ \E answered \in BOOLEAN : AssignRouter(answered)
    \/ \E q \in NetQueries : RouteQueryCall(q)
    \/ \E q \in NetQueries, t \in Targets : ProcessQuery(q, t)
    \/ \E o \in SendOutcomes : ProcessQueryAnswered(o)

NetSpec == Init /\ [][NetNext]_vars

----------------------------------------------------------------------------
(* The keyword router on a changing directory *)

\* The query texts of KeywordRouter.route_query calls.
RouterQueries == NetQueries \cup {QTie, QMany}

RouterNext ==
    \/ \E n \in Names, e \in Endpoints : AddAgents(n, e)
    \/ AddClients
    \/ \E n \in Names : RemoveAgents(n)
    \/ RemoveClients
    \/ \E answered \in BOOLEAN : GetAgentCardReturns(answered)
    \/ \E answered \in BOOLEAN : AssignRouter(answered)
    \/ \E q \in RouterQueries : KeywordRouteQueryCall(q)

RouterSpec == Init /\ [][RouterNext]_vars

----------------------------------------------------------------------------
(* Lookups on a network of either router type *)

ConcInit ==
    /\ agents = <<>>
    /\ clients = <<>>
    /\ router_type \in {"keyword", "ai"}
    /\ OPENAI_AVAILABLE = FALSE
    /\ router = InitializeRouter(router_type, OPENAI_AVAILABLE, <<>>, <<>>,
                                 <<>>, "ok", <<>>)
    /\ conversations = <<>>
    /\ frames = <<>>
    /\ sent = <<>>
    /\ last = Returned("__init__", None, 0)
    /\ changing = NoChange
    /\ routing = NoRouting
    /\ processing = NoProcessing
    /\ network_client = <<>>
    /\ client_call = NoCall
    /\ discovering = NoDiscovery

ConcNext ==
    \/ \E n \in Names, e \in Endpoints : AddAgents(n, e)
    \/ AddClients
    \/ \E n \in Names : RemoveAgents(n)
    \/ RemoveClients
    \/ \E answered \in BOOLEAN : GetAgentCardReturns(answered)
    \/ \E answered \in BOOLEAN : AssignRouter(answered)
    \/ \E answered \in BOOLEAN : AssignFallback(answered)
    \/ \E q \in NetQueries : RouteQueryCall(q)

ConcSpec == ConcInit /\ [][ConcNext]_vars

----------------------------------------------------------------------------
(* The network client *)

\* agent_name values of send_message: absent, empty, and names that may or
\* may not be known at the time of the call.
AgentNameArgs == {None, <<>>} \cup ClientNames

ClientNext ==
    \/ \E n \in ClientNames : AddAgent(n, Endpoint1)
    \/ \E known_ports \in KnownPorts : DiscoverAgentsCall(known_ports)
    \/ DiscoverAddAgent
    \/ \E a \in AgentNameArgs : SendMessageCall(Q0, a)
    \/ SendMessageDiscovers
    \/ SendMessageDiscovered
    \/ \E ok \in BOOLEAN : TestConnectionReturns(ok)
    \/ \E o \in SendOutcomes : ClientSendReturns(o)
    \/ \E w \in ClientWorkflows : RunWorkflowCall(Q0, w)
    \/ \E outcome \in ConversationOutcomes : SendConversationReturns(outcome)

ClientSpec == Init /\ [][ClientNext]_vars

----------------------------------------------------------------------------
(* A network constructed with router_type "ai" *)

\* Query texts handed to the AI router, and the target_agent values and
\* client answers of process_query.
AIQueries == {QWeather}
AITargets == {None, weather}
AIOutcomes == {o \in SendOutcomes : o.kind \in {"text", "raise"}}

AIInit ==
    /\ agents = <<>>
    /\ clients = <<>>
    /\ router_type = "ai"
    /\ OPENAI_AVAILABLE \in BOOLEAN
    /\ \E ctor \in Constructions :
           router = InitializeRouter("ai", OPENAI_AVAILABLE, <<>>, <<>>, <<>>,
                                     ctor, <<>>)
    /\ conversations = <<>>
    /\ frames = <<>>
    /\ sent = <<>>
    /\ last = Returned("__init__", None, 0)
    /\ changing = NoChange
    /\ routing = NoRouting
    /\ processing = NoProcessing
    /\ network_client = <<>>
    /\ client_call = NoCall
    /\ discovering = NoDiscovery

AINext ==
    \/ \E n \in Names : AddAgents(n, Endpoint1)
    \/ AddClients
    \/ \E n \in Names : RemoveAgents(n)
    \/ RemoveClients
    \/ \E answered \in BOOLEAN : GetAgentCardReturns(answered)
    \/ \E answered \in BOOLEAN : AssignRouter(answered)
    \/ \E answered \in BOOLEAN : AssignFallback(answered)
    \/ \E q \in AIQueries, use_cache \in BOOLEAN : AIRouteQueryCall(q, use_cache)
    \/ \E q \in AIQueries : RouteQueryCall(q)
    \/ \E q \in AIQueries, t \in AITargets : ProcessQuery(q, t)
    \/ \E c \in Classifications : ClassifierReturns(c)
    \/ \E o \in AIOutcomes : ProcessQueryAnswered(o)

AISpec == AIInit /\ [][AINext]_vars

----------------------------------------------------------------------------
(* Properties of the orchestrator *)

\* The send_message calls made for a conversation, in order.
SendsOf(c) == SelectSeq(sent, LAMBDA s : s.conversation_id = c)

\* send_message returned (it neither raised nor is still running).
Succeeded(response) == response.kind \in {"text", "other", "none"}

AllSucceeded(S) == \A i \in 1..Len(S) : Succeeded(S[i].response)

\* C1: the sends of a conversation follow its workflow position by position,
\* each position once: the first carries the initial query, each later one the
\* text extracted from the previous agent's response; once every agent of the
\* workflow has answered, the result is the last agent's response text.  A
\* run whose sends all succeeded stops short of the end of the workflow only
\* at an agent that has no client in the directory: one removed since, or one
\* whose add has not yet stored its client.
StepOrder ==
    \A c \in DOMAIN conversations :
        LET S == SendsOf(c)
            wf == conversations[c].workflow
            n == Len(wf)
        IN  /\ Len(S) <= n
            /\ \A i \in 1..Len(S) : S[i].agent = wf[i]
            /\ S # <<>> => S[1].text = frames[c].initial_query
            /\ \A i \in 1..(Len(S) - 1) :
                    /\ Succeeded(S[i].response)
                    /\ S[i + 1].text = ExtractText(S[i].response)
            /\ (frames[c].pc = "returned" /\ AllSucceeded(S)) =>
                    IF Len(S) = n
                    THEN conversations[c].result = ExtractText(S[n].response)
                    ELSE conversations[c].result =
                            ConversationErrorText(wf[Len(S) + 1],
                                                  KeyErrorStr(wf[Len(S) + 1]))

\* A two-agent workflow that ran to its end: weather answered with content
\* that has no .text, math was sent its string form and answered R1.
StepOrderWitness ==
    \E c \in DOMAIN conversations :
        LET S == SendsOf(c)
        IN  /\ conversations[c].workflow = <<weather, math>>
            /\ frames[c].pc = "returned"
            /\ Len(S) = 2
            /\ S[1].text = Q0 /\ S[1].response = [kind |-> "other", text |-> S1]
            /\ S[2].agent = math /\ S[2].text = S1
            /\ S[2].response = [kind |-> "text", text |-> R1]
            /\ conversations[c].result = R1

\* C2: when the send to the agent at position k raises, it is the last send of
\* the conversation (no later agent is sent to, the failing one is not sent to
\* again), the conversation is complete, its result is a text that contains
\* the failing agent's name and the exception message, and the transcript is
\* the input and response entries of the k earlier steps followed by the
\* input entry of the failing step and nothing else.
FailFast ==
    \A c \in DOMAIN conversations :
        LET S == SendsOf(c)
            conv == conversations[c]
        IN  \A k \in 1..Len(S) :
                S[k].response.kind = "raise" =>
                    /\ k = Len(S)
                    /\ conv.complete
                    /\ conv.result # None
                    /\ Contains(conv.result, conv.workflow[k])
                    /\ Contains(conv.result, S[k].response.text)
                    /\ Len(conv.messages) = 2 * (k - 1) + 1
                    /\ \A i \in 1..(k - 1) :
                            /\ conv.messages[2 * i - 1].content = S[i].text
                            /\ conv.messages[2 * i] =
                                    [role |-> conv.workflow[i],
                                     content |-> ExtractText(S[i].response)]
                    /\ conv.messages[2 * k - 1].content = S[k].text

\* Workflow [weather, math]: weather answered, the send to math raised.
FailFastWitness ==
    \E c \in DOMAIN conversations :
        LET S == SendsOf(c)
        IN  /\ conversations[c].workflow = <<weather, math>>
            /\ Len(S) = 2
            /\ S[1].response = [kind |-> "text", text |-> R1]
            /\ S[2].response = [kind |-> "raise", text |-> E1]
            /\ frames[c].pc = "returned"
            /\ Len(conversations[c].messages) = 3

\* C3: a _process_next_step call on a conversation that is already complete,
\* or on an id that names no conversation, changes nothing: no conversation is
\* created or altered, nothing is sent, whatever the input text.
NoOpOnComplete ==
    [][\/ UNCHANGED <<conversations, frames, sent, agents, clients, router>>
       \/ \A c \in ConvIds, t \in CallTexts :
            ~(/\ last'.op = "_process_next_step"
              /\ (c \notin DOMAIN conversations \/ conversations[c].complete)
              /\ ProcessNextStepCall(c, t))]_vars

\* _process_next_step was called on a conversation that had ended in error
\* with an agent of its workflow still unvisited.
NoOpOnCompleteWitness ==
    /\ last.op = "_process_next_step"
    /\ DOMAIN conversations = {1}
    /\ conversations[1].complete
    /\ conversations[1].current_step < Len(conversations[1].workflow)

\* The conversation ran through its whole workflow: every agent answered.
CompletedOk(c) ==
    /\ conversations[c].complete
    /\ Len(SendsOf(c)) = Len(conversations[c].workflow)
    /\ AllSucceeded(SendsOf(c))

\* The conversation ended at an agent that raised or could not be looked up.
CompletedInError(c) == conversations[c].complete /\ ~CompletedOk(c)

\* C4: current_step stays within 0..len(workflow) and counts the sends that
\* returned: it never decreases and grows by one exactly when a send returns
\* without raising.  After a successful completion it equals len(workflow);
\* after a completion in error it is the position of the failing agent, which
\* is below len(workflow) and is the agent the result names.
StepCounter ==
    /\ [](\A c \in DOMAIN conversations :
            LET conv == conversations[c]
                S == SendsOf(c)
                n == Len(conv.workflow)
            IN  /\ 0 <= conv.current_step /\ conv.current_step <= n
                /\ conv.current_step =
                        Cardinality({i \in 1..Len(S) : Succeeded(S[i].response)})
                /\ CompletedOk(c) => conv.current_step = n
                /\ CompletedInError(c) =>
                        /\ conv.current_step < n
                        /\ conv.current_step =
                              IF S # <<>> /\ S[Len(S)].response.kind = "raise"
                              THEN Len(S) - 1 ELSE Len(S)
                        /\ Contains(conv.result, conv.workflow[conv.current_step + 1]))
    /\ [][\A c \in DOMAIN conversations :
            LET before == conversations[c].current_step
                after == conversations'[c].current_step
            IN  /\ after \in {before, before + 1}
                /\ after = before + 1 <=>
                        \E o \in SendOutcomes :
                            Succeeded(o) /\ SendReturns(c, o)]_vars

\* A two-agent workflow whose second send raised: complete, current_step 1.
StepCounterWitness ==
    \E c \in DOMAIN conversations :
        /\ CompletedInError(c)
        /\ Len(conversations[c].workflow) = 2
        /\ Len(SendsOf(c)) = 2
        /\ SendsOf(c)[2].response.kind = "raise"
        /\ conversations[c].current_step = 1

\* C5: result is None exactly while complete is false; once complete is true
\* it stays true and result keeps its value, so result is assigned once, in
\* the step that sets complete; get_conversation_result returns None exactly
\* for an id that names no conversation or a conversation not yet complete.
ResultOnce ==
    /\ [](\A c \in DOMAIN conversations :
            (conversations[c].result = None) <=> ~conversations[c].complete)
    /\ [](\A c \in ConvIds :
            (ConversationResult(c) = None) <=>
                (c \notin DOMAIN conversations \/ ~conversations[c].complete))
    /\ [][\A c \in DOMAIN conversations :
            /\ conversations[c].complete =>
                    /\ conversations'[c].complete
                    /\ conversations'[c].result = conversations[c].result
            /\ (conversations'[c].result # conversations[c].result) =>
                    (~conversations[c].complete /\ conversations'[c].complete)]_vars

\* One conversation complete with result R1, which get_conversation_result
\* returns, beside one still waiting for its agent, for which it returns None.
ResultOnceWitness ==
    \E c, d \in DOMAIN conversations :
        /\ conversations[c].complete
        /\ conversations[c].result = R1
        /\ ConversationResult(c) = R1
        /\ frames[d].pc = "sending"
        /\ ~conversations[d].complete
        /\ ConversationResult(d) = None

\* C6: the transcript only ever grows at its end; after a run through a
\* workflow of n agents it has 2n entries: for step i (from 0) entry 2i is the
\* step's input under the role "user" (i = 0) or workflow[i-1], entry 2i+1 is
\* workflow[i]'s response text under the role workflow[i], and the input of
\* the next step repeats that response text.
Transcript ==
    /\ [][\A c \in DOMAIN conversations :
            LET old == conversations[c].messages
                new == conversations'[c].messages
            IN  Len(new) >= Len(old) /\ SubSeq(new, 1, Len(old)) = old]_vars
    /\ [](\A c \in DOMAIN conversations :
            CompletedOk(c) =>
                LET conv == conversations[c]
                    S == SendsOf(c)
                    n == Len(conv.workflow)
                IN  /\ Len(conv.messages) = 2 * n
                    /\ \A i \in 0..(n - 1) :
                          /\ conv.messages[2 * i + 1] =
                                [role |-> IF i = 0 THEN user ELSE conv.workflow[i],
                                 content |-> S[i + 1].text]
                          /\ conv.messages[2 * i + 2] =
                                [role |-> conv.workflow[i + 1],
                                 content |-> ExtractText(S[i + 1].response)]
                          /\ i < n - 1 =>
                                conv.messages[2 * i + 3].content =
                                    conv.messages[2 * i + 2].content)

\* Workflow [weather, math] ran to its end: four entries, under the roles
\* user, weather, weather, math.
TranscriptWitness ==
    \E c \in DOMAIN conversations :
        /\ CompletedOk(c)
        /\ conversations[c].workflow = <<weather, math>>
        /\ Len(conversations[c].messages) = 4
        /\ [i \in 1..4 |-> conversations[c].messages[i].role] =
                <<user, weather, weather, math>>
        /\ conversations[c].messages[3].content = R1

\* C7: provided every send eventually returns or raises, the
\* start_conversation call of every conversation returns (the run comes to a
\* point from which no call made is left waiting), and a call that has
\* returned leaves its conversation started and complete.
Termination ==
    /\ [](\A c \in DOMAIN frames :
            frames[c].pc = "returned" =>
                /\ conversations[c].complete
                /\ conversations[c].messages # <<>>)
    /\ [](last.op = "start_conversation" /\ ~last.raised =>
            conversations[last.conv].complete)
    /\ <>[](\A c \in DOMAIN frames : frames[c].pc = "returned")

\* start_conversation returned the id of a conversation that went through
\* both agents of its workflow.
TerminationWitness ==
    /\ last.op = "start_conversation"
    /\ ~last.raised
    /\ frames[last.conv].pc = "returned"
    /\ Len(conversations[last.conv].workflow) = 2
    /\ conversations[last.conv].current_step = 2
    /\ conversations[last.conv].complete

\* C8: a send that returns nothing usable (no response, or a response without
\* content) ends the workflow like a send that raised: it is the last send of
\* the conversation, and the conversation completes with a result that names
\* the offending agent.
MalformedResponseFails ==
    \A c \in DOMAIN conversations :
        LET S == SendsOf(c)
            conv == conversations[c]
        IN  \A k \in 1..Len(S) :
                S[k].response.kind = "none" =>
                    /\ k = Len(S)
                    /\ conv.complete
                    /\ Contains(conv.result, conv.workflow[k])

\* C9: start_conversation with an empty workflow, or with a workflow naming an
\* agent that is not in the directory, raises: no conversation is created, the
\* existing ones are untouched and nothing is sent, not even to the registered
\* agents that come earlier in the workflow. (A start_conversation call either
\* raises or creates a conversation: the steps that do neither are none.)
RejectedBeforeStart ==
    [][(last'.raised \/ DOMAIN conversations' # DOMAIN conversations)
       => \A q \in Queries, w \in Workflows :
            (/\ (w = <<>> \/ \E i \in 1..Len(w) : w[i] \notin AgentNames)
             /\ StartConversation(q, w))
            => /\ last'.op = "start_conversation"
               /\ last'.raised
               /\ UNCHANGED <<conversations, frames, sent, agents, clients,
                              router>>]_vars

\* start_conversation raised for the unregistered agent math while weather
\* was registered and a conversation was waiting for its agent.
RejectedBeforeStartWitness ==
    /\ last.op = "start_conversation"
    /\ last.raised
    /\ last.text = AgentNotFoundText(math)
    /\ AgentNames = {weather}
    /\ \E c \in DOMAIN conversations : frames[c].pc = "sending"

----------------------------------------------------------------------------
(* Properties of the network's queries *)

\* C10: on an empty directory route_query returns (None, 0.0) for every
\* query, and process_query returns the "no agents available" text for every
\* query and every target_agent, without asking the router and without
\* sending anything: the call comes to wait for no classifier and no client.
EmptyDirectory ==
    [][agents = <<>> =>
        /\ \A q \in NetQueries :
              RouteQueryCall(q) =>
                  /\ ~last'.raised
                  /\ last'.agent = None
                  /\ last'.confidence = NoConfidence
                  /\ ~last'.consulted
        /\ \A q \in NetQueries, t \in Targets :
              ProcessQuery(q, t) =>
                  /\ ~last'.raised
                  /\ last'.text = NoAgentsText
                  /\ ~last'.consulted
                  /\ last'.sends = <<>>
                  /\ UNCHANGED <<sent, processing, routing, router>>]_vars

\* process_query has answered on an empty directory.
EmptyDirectoryWitness ==
    /\ agents = <<>>
    /\ processing = NoProcessing
    /\ last.op = "process_query"
    /\ last.text = NoAgentsText
    /\ ~last.consulted
    /\ last.sends = <<>>

\* `name` is a key of AgentNetwork.agents.
Registered(name) == \E i \in 1..Len(agents) : agents[i].name = name

\* C11: process_query with a target_agent that is registered, with its
\* client, does not ask the router: it goes straight to the send of the query
\* to that agent's client, decided with confidence 1.0, for every query and
\* every router state; when the client answers, the call returns with that
\* one send made and the router never asked.
TargetBypassesRouter ==
    [][/\ \A q \in NetQueries, t \in Names :
            (Registered(t) /\ t \in DOMAIN clients /\ ProcessQuery(q, t))
            => /\ processing' = Processing(q, t, FullConfidence, FALSE, FALSE)
               /\ last' = NoResult
               /\ UNCHANGED <<router, routing, sent>>
       /\ \A o \in SendOutcomes :
            (~processing.consulted /\ ProcessQueryAnswered(o))
            => /\ ~last'.raised
               /\ ~last'.consulted
               /\ last'.agent = processing.agent
               /\ last'.confidence = FullConfidence
               /\ last'.sends = <<QuerySend(processing.agent,
                                            processing.query, o)>>
               /\ UNCHANGED <<router, routing, sent>>]_vars

\* The weather query was sent to math, the given target, while weather was
\* registered and indexed by the router.
TargetBypassesRouterWitness ==
    /\ Registered(weather) /\ Registered(math)
    /\ weather \in Keys(router.keyword_mapping)
    /\ last.op = "process_query"
    /\ ~last.consulted
    /\ last.confidence = FullConfidence
    /\ last.agent = math
    /\ Len(last.sends) = 1
    /\ last.sends[1].agent = math
    /\ last.sends[1].text = QWeather

\* C12: process_query with a given target_agent that is not registered, on a
\* directory that is not empty, returns the "agent not found" text without
\* asking the router and without sending anything to any agent.
UnknownTarget ==
    [][\A q \in NetQueries, t \in Names :
          (agents # <<>> /\ ~Registered(t) /\ ProcessQuery(q, t)) =>
              /\ ~last'.raised
              /\ last'.text = AgentNotInNetworkText(t)
              /\ ~last'.consulted
              /\ last'.agent = None
              /\ last'.sends = <<>>
              /\ UNCHANGED <<sent, processing, routing, router>>]_vars

\* process_query answered "agent not found" for math while only weather was
\* registered.
UnknownTargetWitness ==
    /\ AgentKeys = <<weather>>
    /\ last.op = "process_query"
    /\ last.text = AgentNotInNetworkText(math)
    /\ last.sends = <<>>
    /\ ~last.consulted

\* C13: when the send to the client of the resolved agent raises,
\* process_query returns the error text naming that agent and the cause,
\* having made exactly one send_message call, to that agent.
DispatchFailure ==
    [][\A o \in SendOutcomes :
          (o.kind = "raise" /\ ProcessQueryAnswered(o)) =>
              /\ ~last'.raised
              /\ last'.agent = processing.agent
              /\ last'.sends = <<QuerySend(processing.agent,
                                           processing.query, o)>>
              /\ last'.text = ProcessingFailedText(processing.agent, o.text)
              /\ Contains(last'.text, processing.agent)
              /\ Contains(last'.text, o.text)
              /\ processing' = NoProcessing
              /\ sent' = sent]_vars

\* A routed query's send to weather raised, with math registered as well.
DispatchFailureWitness ==
    /\ Registered(weather) /\ Registered(math)
    /\ last.op = "process_query"
    /\ last.consulted
    /\ last.agent = weather
    /\ Len(last.sends) = 1
    /\ last.sends[1].response.kind = "raise"
    /\ last.text = ProcessingFailedText(weather, E1)

----------------------------------------------------------------------------
(* Properties of the keyword router *)

\* The number of index keywords mapped to `agent` that are substrings of the
\* lower-cased query.
ScoreOf(agent, query) ==
    Cardinality({k \in Keys(router.keyword_mapping) :
                    /\ Contains(Lower(query), k)
                    /\ agent \in Range(AgentsOf(router.keyword_mapping, k))})

\* Some index keyword is a substring of the lower-cased query.
AnyMatch(query) ==
    \E k \in Keys(router.keyword_mapping) : Contains(Lower(query), k)

\* C15: KeywordRouter.route_query returns a confidence in [0, 1]; when some
\* keyword matches, the returned agent has the highest score of all agents and
\* the confidence is min(score / 10, 1.0), which is at least 0.1.
KeywordConfidence ==
    [][\A q \in RouterQueries :
          KeywordRouteQueryCall(q) =>
              /\ ~last'.raised
              /\ last'.confidence \in NoConfidence..FullConfidence
              /\ AnyMatch(q) =>
                    /\ \A b \in Names : ScoreOf(b, q) <= ScoreOf(last'.agent, q)
                    /\ last'.confidence =
                           IF ScoreOf(last'.agent, q) < FullConfidence
                           THEN ScoreOf(last'.agent, q) ELSE FullConfidence
                    /\ last'.confidence >= LowConfidence]_vars

\* The router answered math with confidence 1.0 on a query holding more than
\* ten of math's keywords, with weather indexed as well.
KeywordConfidenceWitness ==
    /\ Registered(weather) /\ Registered(math)
    /\ ScoreOf(math, QMany) > FullConfidence
    /\ \E k \in Keys(router.keyword_mapping) :
           weather \in Range(AgentsOf(router.keyword_mapping, k))
    /\ last.op = "KeywordRouter.route_query"
    /\ last.agent = math
    /\ last.confidence = FullConfidence

\* C16: for a fixed agent set and a query matching some keyword, a call of
\* KeywordRouter.route_query changes nothing of the router or the directory,
\* and every further call with that query returns the pair just returned,
\* also when several agents tie for the highest score.
KeywordDeterminism ==
    [][\A q \in RouterQueries :
          (AnyMatch(q) /\ KeywordRouteQueryCall(q)) =>
              /\ UNCHANGED <<router, agents, clients>>
              /\ KeywordRouteQuery(router'.keyword_mapping,
                                   [i \in 1..Len(agents') |-> agents'[i].name], q)
                   = {[agent |-> last'.agent, confidence |-> last'.confidence]}]_vars

\* math and weather tie at two matched keywords each; the router answered
\* math, the agent registered first.
KeywordDeterminismWitness ==
    /\ AgentKeys = <<math, weather>>
    /\ ScoreOf(math, QTie) = 2
    /\ ScoreOf(weather, QTie) = 2
    /\ last.op = "KeywordRouter.route_query"
    /\ last.agent = math
    /\ last.confidence = 2

\* C17: when no index keyword is a substring of the query and an agent is
\* registered, KeywordRouter.route_query returns a registered agent, never
\* None, with confidence 0.1, and every registered agent may be the one
\* returned, an agent that contributed no keyword included.
KeywordGuess ==
    [][\A q \in RouterQueries :
          (~AnyMatch(q) /\ agents # <<>> /\ KeywordRouteQueryCall(q)) =>
              /\ ~last'.raised
              /\ last'.agent # None
              /\ Registered(last'.agent)
              /\ last'.confidence = LowConfidence
              /\ KeywordRouteQuery(router.keyword_mapping, AgentKeys, q)
                   = {[agent |-> agents[i].name, confidence |-> LowConfidence] :
                         i \in 1..Len(agents)}]_vars

\* The router guessed math, which has no keyword in the index, while weather
\* is indexed.
KeywordGuessWitness ==
    /\ Registered(weather) /\ Registered(math)
    /\ Keys(router.keyword_mapping) # {}
    /\ \A k \in Keys(router.keyword_mapping) :
           AgentsOf(router.keyword_mapping, k) = <<weather>>
    /\ last.op = "KeywordRouter.route_query"
    /\ last.agent = math
    /\ last.confidence = LowConfidence

\* C18: with weather and math registered and math's keywords built from the
\* math agent's card, KeywordRouter.route_query("What is 5 + 3") returns math
\* with a confidence of at least 0.1.
MathScenario ==
    [][(/\ AgentKeys = <<weather, math>>
        /\ DOMAIN clients = {weather, math}
        /\ clients[weather] = Endpoint1
        /\ clients[math] = Endpoint2
        /\ \A k \in Keywords(math, MathCard) :
              /\ k \in Keys(router.keyword_mapping)
              /\ math \in Range(AgentsOf(router.keyword_mapping, k))
        /\ KeywordRouteQueryCall(QMath)) =>
            /\ last'.agent = math
            /\ last'.confidence >= LowConfidence]_vars

----------------------------------------------------------------------------
(* Properties of a network with the AI router *)

\* C14: process_query never raises: for every directory, target_agent,
\* routing outcome and client answer it returns a text, a result or an error
\* text.
ProcessQueryReturnsText ==
    last.op = "process_query" => ~last.raised /\ last.text # None

\* The decision the network's router holds in its cache for `query`, if any.
Stored(query) ==
    {router.routing_cache[i].result :
        i \in {j \in 1..Len(router.routing_cache) :
                  router.routing_cache[j].query = query}}

\* C19: AIRouter.route_query with use_cache, on a query that has a cache
\* entry, returns exactly the cached decision, does not call the classifier,
\* and leaves the router and its cache as they were, so that the same holds
\* for every repetition of the call.
CacheHit ==
    [][\A q \in AIQueries :
          (/\ Stored(q) # {}
           /\ AIRouteQueryCall(q, TRUE))
          => /\ last'.op = "AIRouter.route_query"
             /\ Stored(q) = {[agent |-> last'.agent,
                              confidence |-> last'.confidence,
                              numeric |-> last'.numeric]}
             /\ ~last'.raised
             /\ ~last'.asked
             /\ router' = router
             /\ routing' = routing]_vars

\* A cache hit on a router whose classifier is available: the cached decision
\* is the classifier's, and the call did not ask it again.
CacheHitWitness ==
    /\ last.op = "AIRouter.route_query"
    /\ OPENAI_AVAILABLE
    /\ router.kind = "ai"
    /\ router.router
    /\ ~last.asked
    /\ \E q \in AIQueries :
           /\ Cached(router.routing_cache, q)
           /\ CacheGet(router.routing_cache, q).agent = last.agent
           /\ CacheGet(router.routing_cache, q).confidence = last.confidence
           /\ last.confidence = 9

\* C20: when the classifier raises during AIRouter.route_query, the call
\* returns: a registered agent with confidence 0.1, or (None, 0.0) when no
\* agent is registered.
ClassifierFailure ==
    [][\A c \in Classifications :
          (/\ last'.op = "AIRouter.route_query"
           /\ c.kind = "raise"
           /\ ClassifierReturns(c))
          => /\ ~last'.raised
             /\ last'.asked
             /\ last'.numeric
             /\ IF agents # <<>>
                THEN Registered(last'.agent) /\ last'.confidence = LowConfidence
                ELSE last'.agent = None /\ last'.confidence = NoConfidence]_vars

\* The classifier was asked and the call returned the second registered
\* agent with 0.1, which only the random fallback does.
ClassifierFailureWitness ==
    /\ last.op = "AIRouter.route_query"
    /\ last.asked
    /\ ~last.invalid
    /\ ~last.raised
    /\ Len(agents) = 2
    /\ last.agent = AgentKeys[2]
    /\ last.confidence = LowConfidence

\* C21: a network configured with the AI router whose classifier library is
\* unavailable answers every route_query, whatever the query, by a random
\* choice among all registered agents with confidence 0.1.
RandomWhenUnavailable ==
    (router_type = "ai" /\ ~OPENAI_AVAILABLE /\ agents # <<>>)
    => \A q \in AIQueries :
          {r.result : r \in RouteQuery(agents, router, OPENAI_AVAILABLE,
                                       q).results}
          = {Decision(AgentKeys[i], LowConfidence, TRUE) :
                i \in 1..Len(agents)}

\* C22: when the classifier answers with an agent that is not in the
\* directory, or with none, AIRouter.route_query returns the first registered
\* agent with confidence 0.1, whatever confidence the classifier reported, and
\* caches that decision, in the network's router if that is still the router
\* the call runs on; with no agent registered it returns (None, 0.0).
InvalidClassification ==
    [][\A c \in Classifications :
          (/\ last'.op = "AIRouter.route_query"
           /\ InvalidResult(AgentKeys, c)
           /\ ClassifierReturns(c))
          => /\ ~last'.raised
             /\ last'.numeric
             /\ IF agents # <<>>
                THEN /\ last'.agent = agents[1].name
                     /\ last'.confidence = LowConfidence
                     /\ ~routing.replaced =>
                          /\ Cached(router'.routing_cache, routing.query)
                          /\ CacheGet(router'.routing_cache, routing.query)
                               = Decision(agents[1].name, LowConfidence, TRUE)
                ELSE /\ last'.agent = None
                     /\ last'.confidence = NoConfidence
                     /\ router' = router]_vars

\* With two agents registered the classifier named neither, and the call
\* returned the first of them with 0.1.
InvalidClassificationWitness ==
    /\ last.op = "AIRouter.route_query"
    /\ last.invalid
    /\ Len(agents) = 2
    /\ last.agent = agents[1].name
    /\ last.confidence = LowConfidence
    /\ \E q \in AIQueries :
           /\ Cached(router.routing_cache, q)
           /\ CacheGet(router.routing_cache, q).agent = agents[1].name

\* C23: every routing decision returned by a router has a confidence within
\* [0, 1], and a decision with agent None has confidence 0.0, whatever
\* confidence the classifier reports.
ConfidenceRange ==
    last.op \in {"AIRouter.route_query", "KeywordRouter.route_query",
                 "route_query"}
    => /\ last.numeric
       /\ NoConfidence <= last.confidence
       /\ last.confidence <= FullConfidence
       /\ last.agent = None => last.confidence = NoConfidence

\* The agent names a keyword index maps to.
IndexNames(keyword_mapping) ==
    UNION {Range(AgentsOf(keyword_mapping, k)) : k \in Keys(keyword_mapping)}

\* `name` is listed under every keyword of `agent_card` in the index.
Indexed(keyword_mapping, name, agent_card) ==
    \A k \in KeywordSets[name, agent_card] :
        /\ k \in Keys(keyword_mapping)
        /\ name \in Range(AgentsOf(keyword_mapping, k))

\* C24: once an add or remove has returned, the keyword index names
\* registered agents only, every registered agent whose card request was
\* answered during the rebuild is listed under all its keywords, and a
\* route_query
\* made while no add or remove is under way returns a registered agent or
\* None.
FreshIndex ==
    /\ [](changing = NoChange
          => \A a \in IndexNames(router.keyword_mapping) :
                 \E i \in 1..Len(agents) : agents[i].name = a)
    /\ [][/\ \A answered \in BOOLEAN :
                (changing.pc = "router" /\ AssignRouter(answered))
                => \A i \in 1..Len(Cards(answered)) :
                       (/\ Cards(answered)[i]
                        /\ CardAt(clients[agents[i].name]) # NoCard)
                       => Indexed(router'.keyword_mapping, agents[i].name,
                                  CardAt(clients[agents[i].name]))
          /\ (/\ changing = NoChange
              /\ last'.op = "route_query"
              /\ \E q \in NetQueries : RouteQueryCall(q))
             => \/ last'.agent = None
                \/ \E i \in 1..Len(agents) : agents[i].name = last'.agent]_vars

\* route_query returned an agent that has been removed since, and the index,
\* rebuilt by the remove, still lists the remaining agent but not this one.
FreshIndexWitness ==
    /\ last.op = "route_query"
    /\ last.consulted
    /\ last.agent # None
    /\ ~Registered(last.agent)
    /\ agents # <<>>
    /\ changing = NoChange
    /\ IndexNames(router.keyword_mapping) = {agents[1].name}

(* Properties of lookups under a concurrent add or remove *)

\* C25: a route_query that runs while an add or remove is under way never
\* returns an agent that is no longer in the directory: it sees the directory
\* and the router index of the same moment.
ConsistentLookup ==
    [][(last'.op = "route_query" /\ \E q \in NetQueries : RouteQueryCall(q))
       => \/ last'.agent = None
          \/ Registered(last'.agent)]_vars

(* Further properties of a network with the AI router *)

\* C26: the AI router's cache is append-only: over route_query calls, with
\* or without use_cache, and over add and remove, an entry once stored for a
\* query stays, with the decision it was stored with.
CacheAppendOnly ==
    [][\A q \in AIQueries :
          Cached(router.routing_cache, q)
          => /\ Cached(router'.routing_cache, q)
             /\ CacheGet(router'.routing_cache, q)
                  = CacheGet(router.routing_cache, q)]_vars

(* Conversations side by side *)

\* The clients a replayed conversation finds at its i-th step: the agent of
\* its i-th send, if it made one.
ClientsAt(S, i) ==
    [n \in (IF i <= Len(S) THEN {S[i].agent} ELSE {}) |-> Endpoint1]

\* Conversation c run alone on the answers in S from its i-th send on.
RECURSIVE Replay(_, _, _, _)
Replay(convs, c, S, i) ==
    IF i > Len(S) \/ S[i].response = Pending THEN convs
    ELSE Replay(AfterSend(convs, ClientsAt(S, i + 1), c, S[i].agent,
                          S[i].response).conversations,
                c, S, i + 1)

\* Conversation c as its own start_conversation call, run alone with the
\* same query, workflow and answers, leaves it.
Alone(c) ==
    LET S == SendsOf(c)
        fresh == [d \in {c} |-> NewConversation(conversations[c].workflow)]
        started == ProcessNextStep(fresh, ClientsAt(S, 1), c,
                                   frames[c].initial_query).conversations
    IN  Replay(started, c, S, 1)[c]

\* C27: with the steps of several conversations interleaved, a step changes
\* the one conversation whose send returned, a conversation has one step in
\* progress at most, and every conversation is at each moment, its end
\* included, what it would be had it run alone on the same answers.
Isolation ==
    /\ [](\A c \in DOMAIN conversations :
              /\ Cardinality({i \in 1..Len(sent) :
                     /\ sent[i].conversation_id = c
                     /\ sent[i].response = Pending})
                   = IF frames[c].pc = "sending" THEN 1 ELSE 0
              /\ conversations[c] = Alone(c))
    /\ [][\A c \in DOMAIN conversations :
              conversations'[c] # conversations[c]
              => /\ frames[c].pc = "sending"
                 /\ \A d \in DOMAIN conversations \ {c} :
                        conversations'[d] = conversations[d]]_vars

\* The second conversation was started and ran to its end, with an answer,
\* while the first is still waiting for its agent.
IsolationWitness ==
    /\ DOMAIN conversations = {1, 2}
    /\ frames[1].pc = "sending"
    /\ ~conversations[1].complete
    /\ conversations[2].complete
    /\ Len(conversations[2].messages) = 2
    /\ Len(sent) = 2

(* Properties of the network client *)

\* A run_workflow call has tested every agent of its workflow, in order, and
\* every test passed.
Cleared(w, tests) ==
    /\ Len(tests) = Len(w)
    /\ \A i \in 1..Len(w) : tests[i].agent = w[i] /\ tests[i].ok

\* C28: run_workflow sends the conversation to no agent unless every
\* workflow name is known and every connection test passed; otherwise it
\* returns the initial message and one error message. When it does send, it
\* sends in workflow order, and a send that raises is the last one: the
\* conversation ends with an error naming that agent.
WorkflowPreflight ==
    /\ [](/\ (client_call.op = "run_workflow" /\ client_call.pc = "send")
             => /\ Cleared(client_call.workflow, client_call.tests)
                /\ client_call.at = Len(client_call.sends) + 1
                /\ client_call.name = client_call.workflow[client_call.at]
                /\ \A i \in 1..Len(client_call.sends) :
                       /\ client_call.sends[i].agent = client_call.workflow[i]
                       /\ ~client_call.sends[i].raised
          /\ (client_call.op = "run_workflow" /\ client_call.pc = "test")
             => client_call.sends = <<>>
          /\ last.op = "run_workflow"
             => LET w == last.workflow
                    sends == last.sends
                    conversation == last.conversation
                IN  /\ ~Cleared(w, last.tests)
                       => /\ sends = <<>>
                          /\ Len(conversation) = 2
                          /\ conversation[1] = Entry(user, Q0)
                          /\ conversation[2].role = "system"
                    /\ Cleared(w, last.tests)
                       => /\ Len(sends) <= Len(w)
                          /\ \A i \in 1..Len(sends) :
                                 /\ sends[i].agent = w[i]
                                 /\ sends[i].raised => i = Len(sends)
                          /\ Len(sends) < Len(w) => sends[Len(sends)].raised
                          /\ (sends # <<>> /\ sends[Len(sends)].raised)
                             => conversation[Len(conversation)]
                                  = Entry("system",
                                          CommunicationErrorText(
                                              w[Len(sends)], E1)))
    /\ [][(last' # last /\ last'.op = "run_workflow"
           /\ Len(last'.tests) < Len(last'.workflow))
          => LET name == last'.workflow[Len(last'.tests) + 1]
             IN  /\ ~Known(network_client, name)
                 /\ \A i \in 1..Len(last'.tests) :
                        last'.tests[i].agent = last'.workflow[i]
                 /\ last'.conversation[2].content = NotInNetworkText(name)]_vars

\* A workflow of two agents passed all tests, the send to the first raised,
\* and the second was not sent to.
WorkflowPreflightWitness ==
    /\ last.op = "run_workflow"
    /\ Len(last.workflow) = 2
    /\ Len(last.tests) = 2
    /\ Len(last.sends) = 1
    /\ last.sends[1].raised
    /\ last.sends[1].agent = last.workflow[1]

\* C30: send_message sends to no agent whose connection test failed in the
\* call. With an agent_name it returns an error message without sending when
\* the name is unknown or its test fails; without one it sends to exactly
\* one agent, the first in registration order whose test succeeds, or
\* returns an error message without sending when every test fails.
TestedBeforeSend ==
    [][(last' # last /\ last'.op = "send_message")
       => LET known == network_client
              agent_name == last'.agent
              tests == last'.tests
              sends == last'.sends
          IN  /\ Len(sends) <= 1
              /\ last'.error <=> sends = <<>>
              /\ \A i \in 1..Len(sends) :
                     /\ \E j \in 1..Len(tests) :
                            tests[j].agent = sends[i].agent /\ tests[j].ok
                     /\ \A j \in 1..Len(tests) :
                            tests[j].agent = sends[i].agent => tests[j].ok
              /\ ~Falsy(agent_name)
                 => IF tests = <<>>
                    THEN /\ ~Known(known, agent_name)
                         /\ sends = <<>>
                         /\ last'.text = ClientAgentNotFoundText(agent_name)
                    ELSE /\ Len(tests) = 1
                         /\ tests[1].agent = agent_name
                         /\ IF tests[1].ok
                            THEN sends # <<>> /\ sends[1].agent = agent_name
                            ELSE /\ sends = <<>>
                                 /\ last'.text = CannotConnectText(agent_name)
              /\ Falsy(agent_name)
                 => /\ \A j \in 1..Len(tests) : tests[j].agent = known[j].name
                    /\ \A j \in 1..(Len(tests) - 1) : ~tests[j].ok
                    /\ IF sends # <<>>
                       THEN /\ tests[Len(tests)].ok
                            /\ sends[1].agent = known[Len(tests)].name
                       ELSE /\ Len(tests) = Len(known)
                            /\ \A j \in 1..Len(tests) : ~tests[j].ok
                            /\ last'.text = NoneReachableText]_vars

(* Properties of the directory *)

\* C29: once an add or remove has returned, the names of agents are those of
\* clients and each client is the one of its agent's endpoint; no name is
\* ever listed twice; an add of a registered name keeps its place and
\* replaces its endpoint and client; a remove of an unregistered name changes
\* neither agents, clients nor the router.
DirectoryInStep ==
    /\ [](/\ \A i, j \in 1..Len(agents) :
                 agents[i].name = agents[j].name => i = j
          /\ changing = NoChange
             => /\ {agents[i].name : i \in 1..Len(agents)} = DOMAIN clients
                /\ \A i \in 1..Len(agents) :
                       clients[agents[i].name] = agents[i].endpoint)
    /\ [][/\ \A n \in Names, e \in Endpoints :
                (Registered(n) /\ AddAgents(n, e))
                => /\ Len(agents') = Len(agents)
                   /\ \A i \in 1..Len(agents) :
                          /\ agents'[i].name = agents[i].name
                          /\ agents'[i].endpoint
                               = IF agents[i].name = n THEN e
                                 ELSE agents[i].endpoint
          /\ (changing.op = "add" /\ AddClients)
             => /\ clients'[changing.name] = changing.endpoint
                /\ \A n \in DOMAIN clients \ {changing.name} :
                       clients'[n] = clients[n]
          /\ \A n \in Names :
                (~Registered(n) /\ RemoveAgents(n))
                => UNCHANGED <<agents, clients, router, changing>>]_vars

\* Both agents were added and routed between, one has been removed since,
\* and the other is left with its client.
DirectoryInStepWitness ==
    /\ last.op = "KeywordRouter.route_query"
    /\ last.agent # None
    /\ ~Registered(last.agent)
    /\ Len(agents) = 1
    /\ changing = NoChange
    /\ DOMAIN clients = {agents[1].name}
    /\ clients[agents[1].name] = Endpoint2

====
